---- MODULE Spec2Model ----
(***************************************************************************)
(* A model of pyvidctrl: the widget layout (Row), the integer control      *)
(* (IntCtrl.inc), the selection/scroll controller (VideoController) and    *)
(* the application's key dispatch (App / TabbedView / VideoController /    *)
(* CtrlWidget with the KeyBind registry).                                  *)
(*                                                                         *)
(* Python indices are kept 0-based; a Python list is a TLA+ sequence, so   *)
(* ctrls[i] of the code is ctrls[i + 1] here.  An exception that leaves a  *)
(* method is modelled by the name of the exception in an "exc" field.      *)
(***************************************************************************)
EXTENDS Integers, Sequences, FiniteSets, TLC

VARIABLES
    \* --- VideoController on its own (SpecVC) ---
    vc,          \* the VideoController object: ctrls, visible_ctrls, selected_ctrl
    vc_raw,      \* the ctrls list handed to VideoController.__init__
    vc_op,       \* the last method called on it: "init", "draw", "next", "prev"
    vc_exc,      \* the exception the last call raised, "none" if it returned
    vc_h,        \* the h of the last draw() call (-1 before the first)
    vc_resized,  \* TRUE once two draw() calls were given different h
    vc_drawn,    \* the indices i of the controls drawn by the last draw()
    \* --- IntCtrl.inc on its own (SpecInc) ---
    ic_ctrl,     \* the descriptor: minimum, maximum, step
    ic_dev,      \* the value the device holds for the control
    ic_call,     \* the last inc() call: its argument, its locals and its outcome
    \* --- Row.draw on its own (SpecRow) ---
    row_columns, \* Row.columns, one weight per child widget
    row_w,       \* the w given to draw()
    row_x,       \* the x given to draw()
    row_op,      \* "init" or "draw"
    row_drawn,   \* the child draw() calls of the last Row.draw, in order
    \* --- the application (Spec) ---
    app,         \* the App object with its tabs, control widgets and device
    pc,          \* where main() stands: "draw", "getch", "valid", "exited", "crashed"
    last,        \* what the last step of main() did
    typed,       \* the edits the user has made so far: opened, or a buffer changed
    \* --- the KeyBind registry on its own (SpecKeyBind) ---
    kb_binds,    \* KeyBind.KEYBINDS, in registration order
    kb_call,     \* the last call made on the registry, and what it returned
    \* --- TabbedView on its own (SpecTab) ---
    tv,          \* the TabbedView: its number of tabs and its selected index
    tv_op        \* "init", "next" or "prev"

vcvars == <<vc, vc_raw, vc_op, vc_exc, vc_h, vc_resized, vc_drawn>>

icvars == <<ic_ctrl, ic_dev, ic_call>>

rowvars == <<row_columns, row_w, row_x, row_op, row_drawn>>

appvars == <<app, pc, last, typed>>

kbvars == <<kb_binds, kb_call>>

tvvars == <<tv, tv_op>>

vars == <<vcvars, icvars, rowvars, appvars, kbvars, tvvars>>

----------------------------------------------------------------------------
(* Bounds *)

MaxCtrls == 4      \* longest ctrls list handed to a VideoController
MaxHeight == 7     \* largest h given to VideoController.draw
MaxSmallSpan == 20 \* every maximum - minimum up to this one is tried
MaxChildren == 4   \* most child widgets of a Row
MaxWeight == 3     \* largest weight in Row.columns
MaxWidth == 6      \* largest w given to Row.draw
MaxEnum == 2       \* most controls (class headers included) a device enumerates
MaxClasses == 2    \* most class headers in an enumeration
MaxRows == 40      \* rows of the terminal of Spec and SpecEdit
MaxTyped == 2      \* most edits (opened, or a buffer changed) in a session
MaxCursor == 2     \* rightmost digit the cursor of a bitmask is moved to
MaxEdits == 3      \* most edits in a session of SpecEdit
MaxBinds == 3      \* most entries registered in SpecKeyBind
MaxTabs == 10      \* most tabs of the TabbedView of SpecTab
MaxDepth == 6      \* deepest recursion of next() / prev(): stands for
                   \* sys.getrecursionlimit(), beyond it RecursionError

----------------------------------------------------------------------------
(* Each specification drives one component; the variables of the others   *)
(* stay at rest, in these values.                                          *)

\* ic_call before any inc() call
NoCall ==
    [op |-> "init", d10 |-> 0, before |-> 0, raw |-> 0, inc |-> 0,
     unclamped |-> 0, written |-> 0, accepted |-> FALSE, exc |-> "none"]

VCIdle ==
    /\ vc_raw = <<>>
    /\ vc = [ctrls |-> <<>>, visible_start |-> 0, visible_stop |-> 0,
            selected_ctrl |-> -1]
    /\ vc_op = "init"
    /\ vc_exc = "none"
    /\ vc_h = -1
    /\ vc_resized = FALSE
    /\ vc_drawn = {}

ICIdle ==
    /\ ic_ctrl = [minimum |-> 0, maximum |-> 0, step |-> 1]
    /\ ic_dev = 0
    /\ ic_call = NoCall

\* `last` before main() took any step
NoStep ==
    [op |-> "init", key |-> "", target |-> [id |-> 0, type |-> "none"],
     offered |-> <<>>, reads |-> <<>>, writes |-> <<>>, exc |-> "none",
     after_end |-> <<>>,
     selection |-> [tab |-> -1, selected_ctrl |-> -1, visible_start |-> 0,
                    visible_stop |-> 0]]

AppIdle ==
    /\ app = [enum |-> <<>>]
    /\ pc = "exited"
    /\ last = NoStep
    /\ typed = 0

RowIdle ==
    /\ row_columns = <<1>>
    /\ row_w = 1
    /\ row_x = 0
    /\ row_op = "init"
    /\ row_drawn = <<>>

\* kb_call before any call on the registry
NoLookup == [op |-> "init"]

KBIdle ==
    /\ kb_binds = <<>>
    /\ kb_call = NoLookup

TVIdle ==
    /\ tv = [n |-> 1, selected |-> 0]
    /\ tv_op = "init"

----------------------------------------------------------------------------
(* Control kinds: the V4L2 control types CtrlWidget.create dispatches on *)

CtrlTypes ==
    {"Integer", "Boolean", "Menu", "Button", "Integer64", "CtrlClass",
     "String", "Bitmask", "IntegerMenu"}

\* isinstance(c, CtrlClassCtrl)
IsCtrlClassCtrl(c) == c.type = "CtrlClass"

NotCtrlClassCtrl(c) == ~IsCtrlClassCtrl(c)

Min2(a, b) == IF a < b THEN a ELSE b

Max2(a, b) == IF a > b THEN a ELSE b

\* The indices Python's list[start:stop] selects from a list of n elements
SliceBound(x, n) == IF x < 0 THEN Max2(x + n, 0) ELSE Min2(x, n)

SliceIndices(start, stop, n) ==
    {i \in 0 .. (n - 1) : SliceBound(start, n) <= i /\ i < SliceBound(stop, n)}

----------------------------------------------------------------------------
(* Arithmetic of the Python expressions the code uses *)

\* a variant of IntTrunc: floor division (delta * one_percent // 1)
IntTruncFloor(p, q) == p \div q

\* int(p / q) for a float p / q: truncation toward zero (q > 0)
IntTrunc(p, q) == IF p >= 0 THEN p \div q ELSE -((-p) \div q)

\* round(p / q): to the nearest integer, a tie to the even one (p >= 0, q > 0)
RoundHalfEven(p, q) ==
    LET f == p \div q
        r2 == 2 * (p % q)
    IN  IF r2 < q THEN f
        ELSE IF r2 > q THEN f + 1
        ELSE IF f % 2 = 0 THEN f ELSE f + 1

RECURSIVE SeqSum(_)
SeqSum(s) == IF s = <<>> THEN 0 ELSE Head(s) + SeqSum(Tail(s))

----------------------------------------------------------------------------
(* IntCtrl.inc.  delta is a percentage given in tenths: d10 = 10 * delta,  *)
(* so delta * one_percent = d10 * (maximum - minimum) / 1000.  For the     *)
(* deltas and spans below, the float product has the integer part of the   *)
(* exact quotient.                                                         *)

\* the deltas: -1000, -10, -1, -0.5, -0.1, 0.1, 0.5, 1, 10, 1000 percent
Deltas10 == {-10000, -100, -10, -5, -1, 1, 5, 10, 100, 10000}

\* inc = int(delta * one_percent)
IncRaw(ctrl, d10) == IntTrunc(d10 * (ctrl.maximum - ctrl.minimum), 1000)

\* a variant of IncFallback: `inc *= self.ctrl.step` left out
IncFallbackUnit(ctrl, d10) == IF d10 > 0 THEN 1 ELSE -1

\* the fallback taken when inc == 0
IncFallback(ctrl, d10) == (IF d10 > 0 THEN 1 ELSE -1) * ctrl.step

\* a variant of IncClamp: the upper bound is not enforced
IncClampLowOnly(ctrl, value) ==
    IF value < ctrl.minimum THEN ctrl.minimum ELSE value

\* the clamping of value to the descriptor's range
IncClamp(ctrl, value) ==
    IF value < ctrl.minimum THEN ctrl.minimum
    ELSE IF value > ctrl.maximum THEN ctrl.maximum
    ELSE value

\* IntCtrl.inc(delta) when the device returned `value` for the read
IntCtrlInc(ctrl, value, d10) ==
    LET raw == IncRaw(ctrl, d10)
        inc == IF raw = 0 THEN IncFallback(ctrl, d10) ELSE raw
    IN  [op |-> "inc", d10 |-> d10, before |-> value, raw |-> raw, inc |-> inc,
         unclamped |-> value + inc,
         written |-> IncClamp(ctrl, value + inc),
         accepted |-> FALSE, exc |-> "none"]

\* IntCtrl.inc(delta) when the device denied the read: value is None and
\* `value += inc` raises
IntCtrlIncDenied(ctrl, d10) ==
    LET raw == IncRaw(ctrl, d10)
        inc == IF raw = 0 THEN IncFallback(ctrl, d10) ELSE raw
    IN  [NoCall EXCEPT !.op = "inc", !.d10 = d10, !.raw = raw, !.inc = inc,
                       !.exc = "TypeError"]

\* the spans maximum - minimum tried: the small ones, and 60 and 100
Spans == (0 .. MaxSmallSpan) \cup {60, 100}

IntDescriptors ==
    {[minimum |-> lo, maximum |-> lo + span, step |-> st] :
        lo \in {-1, 0}, span \in Spans, st \in {1, 5}}

ICSpecInit ==
    /\ VCIdle
    /\ RowIdle
    /\ AppIdle
    /\ KBIdle
    /\ TVIdle
    /\ ic_ctrl \in IntDescriptors
    /\ ic_dev \in ic_ctrl.minimum .. ic_ctrl.maximum
    /\ ic_call = NoCall

\* inc(delta), the device answering the read and accepting the write
IncAccepted ==
    \E d10 \in Deltas10 :
        LET c == IntCtrlInc(ic_ctrl, ic_dev, d10)
        IN  /\ ic_call' = [c EXCEPT !.accepted = TRUE]
            /\ ic_dev' = c.written
            /\ UNCHANGED <<ic_ctrl, vcvars, rowvars, appvars, kbvars, tvvars>>

\* inc(delta), the device answering the read and rejecting the write
\* (the setter swallows the OSError)
IncRejected ==
    \E d10 \in Deltas10 :
        /\ ic_call' = IntCtrlInc(ic_ctrl, ic_dev, d10)
        /\ UNCHANGED <<ic_ctrl, ic_dev, vcvars, rowvars, appvars, kbvars, tvvars>>

\* inc(delta), the device denying the read
IncReadDenied ==
    \E d10 \in Deltas10 :
        /\ ic_call' = IntCtrlIncDenied(ic_ctrl, d10)
        /\ UNCHANGED <<ic_ctrl, ic_dev, vcvars, rowvars, appvars, kbvars, tvvars>>

ICSpecNext == IncAccepted \/ IncRejected \/ IncReadDenied

SpecInc == ICSpecInit /\ [][ICSpecNext]_vars

----------------------------------------------------------------------------
(* Row.draw *)

\* the width Row.draw computes for child i (1-based), `total` drawn so far
RowWidgetW(columns, w, i, total) ==
    IF i = Len(columns)
    THEN w - total
    ELSE RoundHalfEven(w * columns[i], SeqSum(columns))

RECURSIVE RowDrawFrom(_, _, _, _, _)
\* the loop of Row.draw from child i on: the child draw() calls it makes
RowDrawFrom(columns, w, x, i, total) ==
    IF i > Len(columns) THEN <<>>
    ELSE LET widget_w == RowWidgetW(columns, w, i, total)
         IN  IF widget_w > 0
             THEN <<[child |-> i, x |-> x + total, w |-> widget_w]>>
                  \o RowDrawFrom(columns, w, x, i + 1, total + widget_w)
             ELSE RowDrawFrom(columns, w, x, i + 1, total)

\* Row.draw(window, w, h, x, y, color)
RowDraw(columns, w, x) == RowDrawFrom(columns, w, x, 1, 0)

RowColumns ==
    UNION {[1 .. n -> 1 .. MaxWeight] : n \in 1 .. MaxChildren}

RowSpecInit ==
    /\ VCIdle
    /\ ICIdle
    /\ AppIdle
    /\ KBIdle
    /\ TVIdle
    /\ row_columns \in RowColumns
    /\ row_w \in 1 .. MaxWidth
    /\ row_x \in {0, 3}
    /\ row_op = "init"
    /\ row_drawn = <<>>

RowDrawStep ==
    /\ row_op' = "draw"
    /\ row_drawn' = RowDraw(row_columns, row_w, row_x)
    /\ UNCHANGED <<row_columns, row_w, row_x, vcvars, icvars, appvars, kbvars, tvvars>>

\* the terminal is resized: the next draw() is given another width
RowResize ==
    /\ \E w \in 1 .. MaxWidth : row_w' = w /\ w # row_w
    /\ row_op' = "init"
    /\ row_drawn' = <<>>
    /\ UNCHANGED <<row_columns, row_x, vcvars, icvars, appvars, kbvars, tvvars>>

RowSpecNext == RowDrawStep \/ RowResize

SpecRow == RowSpecInit /\ [][RowSpecNext]_vars

----------------------------------------------------------------------------
(* VideoController *)

\* the index of the first non-header control of ctrls, -1 if there is none
FirstSelectable(ctrls) ==
    IF \E i \in 1 .. Len(ctrls) : NotCtrlClassCtrl(ctrls[i])
    THEN (CHOOSE i \in 1 .. Len(ctrls) :
              /\ NotCtrlClassCtrl(ctrls[i])
              /\ \A j \in 1 .. (i - 1) : IsCtrlClassCtrl(ctrls[j])) - 1
    ELSE -1

\* a variant of KeptCtrls: the filter is inverted, the headers are kept
KeptCtrlsInverted(ctrls) == SelectSeq(ctrls, IsCtrlClassCtrl)

\* the ctrls VideoController.__init__ keeps
KeptCtrls(ctrls) == SelectSeq(ctrls, NotCtrlClassCtrl)

\* VideoController.__init__(device, ctrls)
VCInit(ctrls) ==
    [ctrls |-> KeptCtrls(ctrls),
     visible_start |-> 0,
     visible_stop |-> Len(ctrls),
     selected_ctrl |-> FirstSelectable(KeptCtrls(ctrls))]

Returned(v) == [vc |-> v, exc |-> "none"]

Raised(v, e) == [vc |-> v, exc |-> e]

\* the window VideoController.draw computes: slice(start, start + h // 2)
DrawWindow(v, h) ==
    [v EXCEPT !.visible_stop = v.visible_start + (h \div 2)]

\* VideoController.draw, as far as the controller's own state goes
VCDraw(v, h) ==
    IF ~(0 <= v.selected_ctrl /\ v.selected_ctrl < Len(v.ctrls))
    THEN Raised(v, "AssertionError")
    ELSE Returned(DrawWindow(v, h))

\* the indices i that the loop of draw() enumerates
VCDrawn(v) ==
    LET n == Len(v.ctrls)
        picked == SliceIndices(v.visible_start, v.visible_stop, n)
        first == SliceBound(v.visible_start, n)
    IN  {v.visible_start + (k - first) : k \in picked}

\* a variant of NextWindow: wrapping to the first control rewinds the start
\* and leaves the stop where it was
NextWindowRewinds(v, sc) ==
    IF sc < v.visible_start
    THEN [v EXCEPT !.selected_ctrl = sc, !.visible_start = 0]
    ELSE IF sc >= v.visible_stop
    THEN [v EXCEPT !.selected_ctrl = sc,
                   !.visible_start = v.visible_start + 1,
                   !.visible_stop = v.visible_stop + 1]
    ELSE [v EXCEPT !.selected_ctrl = sc]

\* the window after next() moved the selection to sc
NextWindow(v, sc) ==
    IF sc < v.visible_start
    THEN [v EXCEPT !.selected_ctrl = sc,
                   !.visible_start = 0,
                   !.visible_stop = v.visible_stop - v.visible_start]
    ELSE IF sc >= v.visible_stop
    THEN [v EXCEPT !.selected_ctrl = sc,
                   !.visible_start = v.visible_start + 1,
                   !.visible_stop = v.visible_stop + 1]
    ELSE [v EXCEPT !.selected_ctrl = sc]

\* the window after prev() moved the selection to sc
PrevWindow(v, sc) ==
    IF sc > v.visible_stop
    THEN [v EXCEPT !.selected_ctrl = sc,
                   !.visible_start = sc - (v.visible_stop - v.visible_start) + 1,
                   !.visible_stop = sc + 1]
    ELSE IF sc < v.visible_start
    THEN [v EXCEPT !.selected_ctrl = sc,
                   !.visible_start = v.visible_start - 1,
                   !.visible_stop = v.visible_stop - 1]
    ELSE [v EXCEPT !.selected_ctrl = sc]

\* the call came back, or raised, after `calls` calls of the method (the
\* first one and the recursive ones)
After(r, calls) == [vc |-> r.vc, exc |-> r.exc, calls |-> calls]

RECURSIVE VCNextFrom(_, _)
\* VideoController.next, as the calls-th call of the recursion
VCNextFrom(v, calls) ==
    IF calls > MaxDepth
    THEN After(Raised(v, "RecursionError"), calls - 1)
    ELSE IF Len(v.ctrls) = 0
    THEN After(Raised(v, "ZeroDivisionError"), calls)
    ELSE LET sc == (v.selected_ctrl + 1) % Len(v.ctrls)
             moved == NextWindow(v, sc)
         IN  IF IsCtrlClassCtrl(moved.ctrls[sc + 1])
             THEN VCNextFrom(moved, calls + 1)
             ELSE After(Returned(moved), calls)

\* VideoController.next
VCNext(v) == VCNextFrom(v, 1)

RECURSIVE VCPrevFrom(_, _)
\* VideoController.prev, as the calls-th call of the recursion
VCPrevFrom(v, calls) ==
    IF calls > MaxDepth
    THEN After(Raised(v, "RecursionError"), calls - 1)
    ELSE IF Len(v.ctrls) = 0
    THEN After(Raised(v, "ZeroDivisionError"), calls)
    ELSE LET sc == (v.selected_ctrl - 1) % Len(v.ctrls)
             moved == PrevWindow(v, sc)
         IN  IF IsCtrlClassCtrl(moved.ctrls[sc + 1])
             THEN VCPrevFrom(moved, calls + 1)
             ELSE After(Returned(moved), calls)

\* VideoController.prev
VCPrev(v) == VCPrevFrom(v, 1)

----------------------------------------------------------------------------
(* SpecVC: one VideoController, driven by draw(), next() and prev() *)

\* a control widget of the given type made from the i-th descriptor
CtrlOf(i, t) == [id |-> i, type |-> t]

\* the kinds a group's controls are drawn from in SpecVC
GroupTypes == {"Integer", "CtrlClass"}

\* the ctrls lists handed to the constructor: up to MaxCtrls widgets
Groups ==
    UNION {{[i \in 1 .. n |-> CtrlOf(i, f[i])] : f \in [1 .. n -> GroupTypes]}
           : n \in 1 .. MaxCtrls}

VCSpecInit ==
    /\ ICIdle
    /\ RowIdle
    /\ AppIdle
    /\ KBIdle
    /\ TVIdle
    /\ vc_raw \in Groups
    /\ vc = VCInit(vc_raw)
    /\ vc_op = "init"
    /\ vc_exc = "none"
    /\ vc_h = -1
    /\ vc_resized = FALSE
    /\ vc_drawn = {}

VCDrawStep ==
    \E h \in 0 .. MaxHeight :
        LET r == VCDraw(vc, h)
        IN  /\ vc' = r.vc
            /\ vc_exc' = r.exc
            /\ vc_op' = "draw"
            /\ vc_h' = IF r.exc = "none" THEN h ELSE vc_h
            /\ vc_resized' = (vc_resized \/ (r.exc = "none" /\ vc_h # -1 /\ vc_h # h))
            /\ vc_drawn' = IF r.exc = "none" THEN VCDrawn(r.vc) ELSE vc_drawn
            /\ UNCHANGED <<vc_raw, icvars, rowvars, appvars, kbvars, tvvars>>

VCNextStep ==
    LET r == VCNext(vc)
    IN  /\ vc' = r.vc
        /\ vc_exc' = r.exc
        /\ vc_op' = "next"
        /\ UNCHANGED <<vc_raw, vc_h, vc_resized, vc_drawn, icvars, rowvars, appvars, kbvars, tvvars>>

VCPrevStep ==
    LET r == VCPrev(vc)
    IN  /\ vc' = r.vc
        /\ vc_exc' = r.exc
        /\ vc_op' = "prev"
        /\ UNCHANGED <<vc_raw, vc_h, vc_resized, vc_drawn, icvars, rowvars, appvars, kbvars, tvvars>>

VCSpecNext == VCDrawStep \/ VCNextStep \/ VCPrevStep

SpecVC == VCSpecInit /\ [][VCSpecNext]_vars

----------------------------------------------------------------------------
(* TabbedView *)

\* TabbedView.__init__(widgets, titles, selected) does not raise, n being
\* len(widgets) and selected <<>> for None: `assert 0 < len(widgets)` and
\* `assert 0 < selected < len(widgets) - 1`
TabbedViewAsserts(n, selected) ==
    /\ 0 < n
    /\ selected # <<>> => (0 < selected[1] /\ selected[1] < n - 1)

\* TabbedView.__init__: the object made
TabbedViewInit(n, selected) ==
    [n |-> n, selected |-> IF selected = <<>> THEN 0 ELSE selected[1]]

\* TabbedView.next: the new self.selected, n being len(self.widgets)
TabbedViewNext(selected, n) == (selected + 1) % n

\* a variant of TabbedViewPrev: the first tab is not left
TabbedViewPrevClamps(selected, n) == Max2(selected - 1, 0)

\* TabbedView.prev: the new self.selected
TabbedViewPrev(selected, n) == (selected - 1) % n

----------------------------------------------------------------------------
(* SpecTab: one TabbedView, driven by next() and prev() *)

TVSpecInit ==
    /\ VCIdle
    /\ ICIdle
    /\ RowIdle
    /\ AppIdle
    /\ KBIdle
    /\ \E n \in 1 .. MaxTabs : \E selected \in {<<>>} \cup {<<i>> : i \in 0 .. MaxTabs} :
          /\ TabbedViewAsserts(n, selected)
          /\ tv = TabbedViewInit(n, selected)
    /\ tv_op = "init"

TVNextStep ==
    /\ tv' = [tv EXCEPT !.selected = TabbedViewNext(tv.selected, tv.n)]
    /\ tv_op' = "next"
    /\ UNCHANGED <<vcvars, icvars, rowvars, appvars, kbvars>>

TVPrevStep ==
    /\ tv' = [tv EXCEPT !.selected = TabbedViewPrev(tv.selected, tv.n)]
    /\ tv_op' = "prev"
    /\ UNCHANGED <<vcvars, icvars, rowvars, appvars, kbvars>>

TVSpecNext == TVNextStep \/ TVPrevStep

SpecTab == TVSpecInit /\ [][TVSpecNext]_vars

----------------------------------------------------------------------------
(* The KeyBind registry of __main__.py.  A key is named by its character  *)
(* ("q") or by its curses name ("KEY_UP"); "\n" is "ENTER", "\t" is         *)
(* "KEY_TAB", "\x1b" is "ESC".  A handler is named by the method the entry *)
(* registers, a lambda by the call it makes.                               *)

KB(c, k, h) == [cls |-> c, key |-> k, handler |-> h]

\* the entries registered for IntCtrl or Int64Ctrl (the same 20, in order)
IntKeyBinds(c) ==
    <<KB(c, "u", "change_step(-1)"), KB(c, ",", "change_step(-1)"),
      KB(c, "p", "change_step(+1)"), KB(c, ".", "change_step(+1)"),
      KB(c, "U", "change_step(-10)"), KB(c, "<", "change_step(-10)"),
      KB(c, "P", "change_step(+10)"), KB(c, ">", "change_step(+10)"),
      KB(c, "h", "change_percent(-1)"), KB(c, "KEY_LEFT", "change_percent(-1)"),
      KB(c, "l", "change_percent(+1)"), KB(c, "KEY_RIGHT", "change_percent(+1)"),
      KB(c, "H", "change_percent(-10)"), KB(c, "KEY_SLEFT", "change_percent(-10)"),
      KB(c, "L", "change_percent(+10)"), KB(c, "KEY_SRIGHT", "change_percent(+10)"),
      KB(c, "^", "set_value(-inf)"), KB(c, "KEY_HOME", "set_value(-inf)"),
      KB(c, "$", "set_value(inf)"), KB(c, "KEY_END", "set_value(inf)")>>

\* KeyBind.KEYBINDS, in registration order
KEYBINDS ==
    <<KB("App", "q", "App.end"),
      KB("App", "?", "App.help"),
      KB("App", "s", "CtrlWidget.toggle_statusline"),
      KB("TabbedView", "KEY_STAB", "TabbedView.prev"),
      KB("TabbedView", "KEY_TAB", "TabbedView.next"),
      KB("VideoController", "d", "VideoController.set_default_selected"),
      KB("VideoController", "D", "VideoController.set_default_all"),
      KB("VideoController", "k", "VideoController.prev"),
      KB("VideoController", "KEY_UP", "VideoController.prev"),
      KB("VideoController", "j", "VideoController.next"),
      KB("VideoController", "KEY_DOWN", "VideoController.next")>>
    \o IntKeyBinds("IntCtrl")
    \o IntKeyBinds("Int64Ctrl")
    \o <<KB("BoolCtrl", "h", "BoolCtrl.false"),
         KB("BoolCtrl", "KEY_LEFT", "BoolCtrl.false"),
         KB("BoolCtrl", "l", "BoolCtrl.true"),
         KB("BoolCtrl", "KEY_RIGHT", "BoolCtrl.true"),
         KB("BoolCtrl", "ENTER", "BoolCtrl.neg"),
         KB("ButtonCtrl", "ENTER", "ButtonCtrl.click"),
         KB("MenuCtrl", "h", "MenuCtrl.prev"),
         KB("MenuCtrl", "KEY_LEFT", "MenuCtrl.prev"),
         KB("MenuCtrl", "l", "MenuCtrl.next"),
         KB("MenuCtrl", "KEY_RIGHT", "MenuCtrl.next"),
         KB("BitmaskCtrl", "h", "BitmaskCtrl.prev"),
         KB("BitmaskCtrl", "KEY_LEFT", "BitmaskCtrl.prev"),
         KB("BitmaskCtrl", "l", "BitmaskCtrl.next"),
         KB("BitmaskCtrl", "KEY_RIGHT", "BitmaskCtrl.next"),
         KB("BitmaskCtrl", "k", "BitmaskCtrl.inc"),
         KB("BitmaskCtrl", "KEY_UP", "BitmaskCtrl.inc"),
         KB("BitmaskCtrl", "j", "BitmaskCtrl.dec"),
         KB("BitmaskCtrl", "KEY_DOWN", "BitmaskCtrl.dec"),
         KB("IntMenuCtrl", "h", "MenuCtrl.prev"),
         KB("IntMenuCtrl", "KEY_LEFT", "MenuCtrl.prev"),
         KB("IntMenuCtrl", "l", "MenuCtrl.next"),
         KB("IntMenuCtrl", "KEY_RIGHT", "MenuCtrl.next")>>

\* the class a control class is derived from, if it is derived from one
\* that has entries of its own
ParentClass(cls) ==
    CASE cls = "Int64Ctrl" -> "IntCtrl"
      [] cls = "IntMenuCtrl" -> "MenuCtrl"
      [] OTHER -> "none"

\* a variant of KeyBindMatches: isinstance-like, an entry of the parent
\* class matches too
KeyBindMatchesSubclass(k, cls, key) ==
    (k.cls = cls \/ k.cls = ParentClass(cls)) /\ k.key = key

\* lambda k: k.cls == cls and k.key == key
KeyBindMatches(k, cls, key) == k.cls = cls /\ k.key = key

\* a variant of FirstKeyBind: the class of the widget is not looked at
FirstKeyBindOfKey(binds, cls, key) ==
    LET hits == {i \in 1 .. Len(binds) : binds[i].key = key}
    IN  IF hits = {} THEN "None"
        ELSE binds[CHOOSE i \in hits : \A j \in hits : i <= j].handler

\* next(filter(lambda k: k.cls == cls and k.key == key, binds)): the first
\* entry of binds registered for exactly (cls, key), "None" on StopIteration
FirstKeyBind(binds, cls, key) ==
    LET hits == {i \in 1 .. Len(binds) : KeyBindMatches(binds[i], cls, key)}
    IN  IF hits = {} THEN "None"
        ELSE binds[CHOOSE i \in hits : \A j \in hits : i <= j].handler

\* KeyBind.get_handler(cls, key)
GetHandler(cls, key) == FirstKeyBind(KEYBINDS, cls, key)

\* the keys curses names by an integer: KeyBind.__init__ gets an int
IsIntKey(key) == key \in {"KEY_UP", "KEY_DOWN", "KEY_LEFT", "KEY_RIGHT",
                          "KEY_SLEFT", "KEY_SRIGHT", "KEY_HOME", "KEY_END",
                          "KEY_STAB", "KEY_BACKSPACE"}

\* KeyBind.__init__: `assert isinstance(key, str) or display is not None`
KeyBindAsserts(key, display) == ~IsIntKey(key) \/ display # <<>>

\* KeyBind.__init__(cls, key, handler, help_text, display), display being
\* <<>> for None: the object appended to KEYBINDS
KeyBindNew(cls, key, handler, help_text, display) ==
    [cls |-> cls, key |-> key, handler |-> handler, help_text |-> help_text,
     display |-> IF display = <<>> \/ display = <<"">> THEN key ELSE display[1]]

\* a variant of HelpAdd: the help text is appended without `not in`
HelpAddRepeats(keys, kb) ==
    IF \E j \in 1 .. Len(keys) : keys[j].key = kb.display
    THEN [j \in 1 .. Len(keys) |->
              IF keys[j].key = kb.display
              THEN [keys[j] EXCEPT !.help_texts = Append(@, kb.help_text)]
              ELSE keys[j]]
    ELSE Append(keys, [key |-> kb.display, help_texts |-> <<kb.help_text>>])

\* one round of the first loop of App.draw_help:
\* `help_texts = keys.setdefault(kb.display, [])`, then
\* `if kb.help_text not in help_texts: help_texts.append(kb.help_text)`;
\* keys is the dict as the sequence of its items, in insertion order
HelpAdd(keys, kb) ==
    IF \E j \in 1 .. Len(keys) : keys[j].key = kb.display
    THEN [j \in 1 .. Len(keys) |->
              IF keys[j].key = kb.display
                 /\ \A t \in 1 .. Len(keys[j].help_texts) :
                        keys[j].help_texts[t] # kb.help_text
              THEN [keys[j] EXCEPT !.help_texts = Append(@, kb.help_text)]
              ELSE keys[j]]
    ELSE Append(keys, [key |-> kb.display, help_texts |-> <<kb.help_text>>])

RECURSIVE HelpKeysFrom(_, _, _)
\* `for kb in KeyBind.KEYBINDS`, from the i-th entry on
HelpKeysFrom(binds, i, keys) ==
    IF i > Len(binds) THEN keys
    ELSE HelpKeysFrom(binds, i + 1, HelpAdd(keys, binds[i]))

\* App.draw_help: the Labels drawn, one per item of keys, top to bottom
DrawHelp(binds) == HelpKeysFrom(binds, 1, <<>>)

----------------------------------------------------------------------------
(* SpecKeyBind: a registry filled by KeyBind(...) calls, looked up by    *)
(* get_handler and listed by draw_help                                    *)

\* the classes entries are registered for: a class and one derived from it
BindClasses == {"IntCtrl", "Int64Ctrl"}

\* the (key, display) arguments: a character key without display, an
\* integer key with and without a display, a character key sharing the
\* display of the integer key
BindKeys ==
    {<<"h", <<>>>>, <<"KEY_LEFT", <<"LEFT">>>>, <<"KEY_LEFT", <<>>>>,
     <<"h", <<"LEFT">>>>}

BindHelpTexts == {"decrease value", "previous choice"}

\* the handler registered for a class: a method of that class
BindHandler(cls) == IF cls = "IntCtrl" THEN "IntCtrl.dec" ELSE "Int64Ctrl.dec"

KBSpecInit ==
    /\ VCIdle
    /\ ICIdle
    /\ RowIdle
    /\ AppIdle
    /\ TVIdle
    /\ kb_binds = <<>>
    /\ kb_call = NoLookup

\* KeyBind(cls, key, handler, help_text, display) at import time
Register ==
    /\ Len(kb_binds) < MaxBinds
    /\ \E cls \in BindClasses : \E kd \in BindKeys : \E help_text \in BindHelpTexts :
          IF KeyBindAsserts(kd[1], kd[2])
          THEN /\ kb_binds' = Append(kb_binds,
                                     KeyBindNew(cls, kd[1], BindHandler(cls),
                                                help_text, kd[2]))
               /\ kb_call' = [op |-> "register", exc |-> "none"]
          ELSE /\ kb_call' = [op |-> "register", exc |-> "AssertionError"]
               /\ UNCHANGED kb_binds
    /\ UNCHANGED <<vcvars, icvars, rowvars, appvars, tvvars>>

\* KeyBind.get_handler(cls, key)
Lookup ==
    /\ \E cls \in BindClasses : \E kd \in BindKeys :
          kb_call' = [op |-> "get_handler", cls |-> cls, key |-> kd[1],
                      handler |-> FirstKeyBind(kb_binds, cls, kd[1])]
    /\ UNCHANGED <<kb_binds, vcvars, icvars, rowvars, appvars, tvvars>>

\* App.draw_help(...)
Help ==
    /\ kb_call' = [op |-> "draw_help", lines |-> DrawHelp(kb_binds)]
    /\ UNCHANGED <<kb_binds, vcvars, icvars, rowvars, appvars, tvvars>>

KBSpecNext == Register \/ Lookup \/ Help

SpecKeyBind == KBSpecInit /\ [][KBSpecNext]_vars

\* the class CtrlWidget.create makes for a control type
ClassOf(type) ==
    CASE type = "Integer" -> "IntCtrl"
      [] type = "Boolean" -> "BoolCtrl"
      [] type = "Menu" -> "MenuCtrl"
      [] type = "Button" -> "ButtonCtrl"
      [] type = "Integer64" -> "Int64Ctrl"
      [] type = "CtrlClass" -> "CtrlClassCtrl"
      [] type = "String" -> "StringCtrl"
      [] type = "Bitmask" -> "BitmaskCtrl"
      [] type = "IntegerMenu" -> "IntMenuCtrl"

----------------------------------------------------------------------------
(* The device: what it enumerates and the values it holds *)

\* the control types other than the class header, in the order of
\* CtrlWidget.create's table
ValueTypes ==
    <<"Integer", "Boolean", "Menu", "Button", "Integer64", "String",
      "Bitmask", "IntegerMenu">>

\* names of control classes; a device that has none keeps "User Controls"
ClassNames ==
    <<"User Controls", "Camera Controls", "Image Source Controls",
      "Image Processing Controls", "Flash Controls">>

\* str(None)
StrNone == <<"N", "o", "n", "e">>

\* the descriptor fields the device reports for a control of a type
Descriptor(type) ==
    CASE type \in {"Integer", "Integer64"} ->
             [minimum |-> 0, maximum |-> 2, step |-> 1, default |-> 1]
      [] type = "Boolean" ->
             [minimum |-> 0, maximum |-> 1, step |-> 1, default |-> 0]
      [] type \in {"Menu", "IntegerMenu"} ->
             [minimum |-> 0, maximum |-> 3, step |-> 1, default |-> 0]
      [] type = "Button" ->
             [minimum |-> 0, maximum |-> 0, step |-> 0, default |-> 0]
      [] type = "String" ->
             [minimum |-> 2, maximum |-> 3, step |-> 1, default |-> 0]
      [] type = "Bitmask" ->
             [minimum |-> 0, maximum |-> 2147483647, step |-> 0, default |-> 0]
      [] type = "CtrlClass" ->
             [minimum |-> 0, maximum |-> 0, step |-> 0, default |-> 0]

\* the menu indices for which VIDIOC_QUERYMENU succeeds: 1 is a gap
MenuIndices == {0, 2, 3}

\* an unsigned 32-bit value n = 65536 * hi + lo, kept as its two 16-bit
\* halves: the value of a Bitmask control
U32(hi, lo) == [hi |-> hi, lo |-> lo]

\* the value the device holds for a control when the program starts
StartValue(type) ==
    CASE type \in {"Integer", "Integer64"} -> 0
      [] type = "Boolean" -> 1
      [] type \in {"Menu", "IntegerMenu"} -> 2
      [] type = "Button" -> 0
      [] type = "String" -> <<"a", "b">>
      [] type = "Bitmask" -> U32(0, 1)
      [] type = "CtrlClass" -> 0

\* the shapes of an enumeration: where the class headers stand
Shapes ==
    {f \in UNION {[1 .. n -> BOOLEAN] : n \in 0 .. MaxEnum} :
        Cardinality({i \in DOMAIN f : f[i]}) <= MaxClasses}

\* the enumeration with the class headers where `shape` says, the classes
\* named from ClassNames[1 + skip] on and the other controls typed from
\* ValueTypes[1 + first] on, cyclically
Enumeration(shape, skip, first) ==
    [i \in DOMAIN shape |->
        LET headers == Cardinality({j \in 1 .. i : shape[j]})
        IN  IF shape[i]
            THEN [id |-> i, type |-> "CtrlClass",
                  name |-> ClassNames[headers + skip]]
            ELSE [id |-> i,
                  type |-> ValueTypes[((first + i - headers - 1) % Len(ValueTypes)) + 1],
                  name |-> "control"]]

Enumerations ==
    {Enumeration(shape, skip, first) :
        shape \in Shapes, skip \in 0 .. 1, first \in 0 .. (Len(ValueTypes) - 1)}

----------------------------------------------------------------------------
(* query_ctrls: the controls by category, a dict kept as the sequence of  *)
(* its items in insertion order                                            *)

HasKey(groups, name) == \E k \in 1 .. Len(groups) : groups[k].name = name

\* controls[name] = []
SetEmpty(groups, name) ==
    IF HasKey(groups, name)
    THEN [k \in 1 .. Len(groups) |->
             IF groups[k].name = name
             THEN [groups[k] EXCEPT !.ctrls = <<>>] ELSE groups[k]]
    ELSE Append(groups, [name |-> name, ctrls |-> <<>>])

\* controls[name].append(ctrl)
AppendCtrl(groups, name, ctrl) ==
    [k \in 1 .. Len(groups) |->
        IF groups[k].name = name
        THEN [groups[k] EXCEPT !.ctrls = Append(@, ctrl)] ELSE groups[k]]

RECURSIVE QueryFrom(_, _, _, _)
\* the loop of query_v4l2_ctrls from the i-th control of the device on
QueryFrom(enum, i, groups, current_class) ==
    IF i > Len(enum) THEN groups
    ELSE LET ctrl == enum[i]
             cls == IF ctrl.type = "CtrlClass" THEN ctrl.name ELSE current_class
             opened == IF ctrl.type = "CtrlClass"
                       THEN SetEmpty(groups, ctrl.name) ELSE groups
         IN  QueryFrom(enum, i + 1, AppendCtrl(opened, cls, ctrl), cls)

\* query_v4l2_ctrls(dev)
QueryV4l2Ctrls(enum) ==
    QueryFrom(enum, 1, <<[name |-> "User Controls", ctrls |-> <<>>]>>,
              "User Controls")

\* query_ctrls(dev); the device has no control of the deprecated Tegra API
QueryCtrls(enum) ==
    QueryV4l2Ctrls(enum) \o <<[name |-> "Tegra Controls", ctrls |-> <<>>]>>

----------------------------------------------------------------------------
(* App.__init__ *)

\* the state of the widget that shows a control's value: Bar, TrueFalse,
\* Menu (selected: the option pointer), Button, TextField (in_edit, buffer),
\* BitmaskEditWidget (in_edit, buffer, selected: the cursor).  The reads of
\* the constructors are answered by the device.
WidgetInit(type) ==
    [value |-> IF type \in {"CtrlClass", "Button", "Menu", "IntegerMenu"}
               THEN <<>> ELSE <<StartValue(type)>>,
     in_edit |-> FALSE,
     buffer |-> <<>>,
     selected |-> 0]

\* the categories App.__init__ makes a VideoController for
NonEmptyGroups(groups) ==
    SelectSeq(groups, LAMBDA g : 0 < Len(g.ctrls))

\* the widget CtrlWidget.create makes for a descriptor
CtrlWidgetCreate(ctrl) == CtrlOf(ctrl.id, ctrl.type)

\* App.__init__(device), the terminal being term_h rows high
AppInit(enum, term_h) ==
    LET groups == QueryCtrls(enum)
        shown == NonEmptyGroups(groups)
    IN  [enum |-> enum,
         dev |-> [i \in 1 .. Len(enum) |-> StartValue(enum[i].type)],
         widgets |-> [i \in 1 .. Len(enum) |-> WidgetInit(enum[i].type)],
         has_tabs |-> Len(enum) > 0,
         tabs |-> [t \in 1 .. Len(shown) |->
                      VCInit([k \in 1 .. Len(shown[t].ctrls) |->
                                 CtrlWidgetCreate(shown[t].ctrls[k])])],
         titles |-> [t \in 1 .. Len(shown) |-> shown[t].name],
         selected |-> 0,
         in_help |-> FALSE,
         show_statusline |-> FALSE,
         running |-> TRUE,
         released |-> FALSE,
         term_h |-> term_h]

----------------------------------------------------------------------------
(* Python values: None or a value; text is the sequence of its characters *)

PyNone == <<>>

Some(v) == <<v>>

IsNone(x) == x = <<>>

Val(x) == x[1]

\* the keys curses reports with a code above 127
CursesKeys ==
    {"KEY_UP", "KEY_DOWN", "KEY_LEFT", "KEY_RIGHT", "KEY_SLEFT", "KEY_SRIGHT",
     "KEY_HOME", "KEY_END", "KEY_STAB", "KEY_BACKSPACE"}

\* whether text.encode("ascii") succeeds
IsAsciiStr(text) == \A i \in 1 .. Len(text) : text[i] \notin CursesKeys

HexDigits ==
    <<"0", "1", "2", "3", "4", "5", "6", "7", "8", "9", "a", "b", "c", "d",
      "e", "f">>

UpperHexDigits == <<"A", "B", "C", "D", "E", "F">>

\* key in string.hexdigits
IsHexDigit(key) ==
    \/ \E i \in 1 .. Len(HexDigits) : HexDigits[i] = key
    \/ \E i \in 1 .. Len(UpperHexDigits) : UpperHexDigits[i] = key

\* int(c, 16)
HexValue(c) ==
    IF \E i \in 1 .. Len(HexDigits) : HexDigits[i] = c
    THEN (CHOOSE i \in 1 .. Len(HexDigits) : HexDigits[i] = c) - 1
    ELSE (CHOOSE i \in 1 .. Len(UpperHexDigits) : UpperHexDigits[i] = c) + 9

RECURSIVE Pow16(_)
Pow16(n) == IF n = 0 THEN 1 ELSE 16 * Pow16(n - 1)

\* the hex digits of a 16-bit half, the most significant first
ToHex16(n) ==
    [i \in 1 .. 4 |-> HexDigits[((n \div Pow16(4 - i)) % 16) + 1]]

\* value.to_bytes(4, "big").hex()
ToHex(value) == ToHex16(value.hi) \o ToHex16(value.lo)

RECURSIVE FromHex16(_)
\* the number a string of hex digits denotes, the last digit the lowest
FromHex16(digits) ==
    IF digits = <<>> THEN 0
    ELSE 16 * FromHex16(SubSeq(digits, 1, Len(digits) - 1))
         + HexValue(digits[Len(digits)])

\* int.from_bytes(bytes.fromhex(buffer), "big") of a buffer of 8 digits
FromHex(buffer) ==
    U32(FromHex16(SubSeq(buffer, 1, 4)), FromHex16(SubSeq(buffer, 5, 8)))

RECURSIVE StrNat(_)
\* str(n) for an n >= 0
StrNat(n) ==
    IF n < 10 THEN <<HexDigits[n + 1]>>
    ELSE StrNat(n \div 10) \o <<HexDigits[(n % 10) + 1]>>

\* " " * n
Spaces(n) == [i \in 1 .. n |-> " "]

\* a variant of QueryMenuAccepts: the OSError of VIDIOC_QUERYMENU is not
\* noticed and every index is taken
QueryMenuAcceptsAll(i) == TRUE

\* ioctl(device, VIDIOC_QUERYMENU, querymenu) for index i does not raise
QueryMenuAccepts(i) == i \in MenuIndices

RECURSIVE MenuOptionsFrom(_, _, _)
\* the loop `for i in range(ctrl.minimum, ctrl.maximum + 1)` of
\* MenuCtrl.__init__ from index i on, `keys` being the keys of options
MenuOptionsFrom(i, maximum, keys) ==
    IF i > maximum THEN keys
    ELSE MenuOptionsFrom(i + 1, maximum,
                         IF QueryMenuAccepts(i) THEN Append(keys, i) ELSE keys)

\* list(options.keys()) of the Menu of a MenuCtrl or IntMenuCtrl
MenuKeys ==
    MenuOptionsFrom(Descriptor("Menu").minimum, Descriptor("Menu").maximum, <<>>)

\* value in self.options.keys()
InMenuKeys(value) == \E i \in 1 .. Len(MenuKeys) : MenuKeys[i] = value

\* keys.index(value)
MenuIndex(value) == (CHOOSE i \in 1 .. Len(MenuKeys) : MenuKeys[i] = value) - 1

----------------------------------------------------------------------------
(* What one step of the main loop does: the App after it, what the call   *)
(* returned (ret: whether the value is truthy), the exception that left   *)
(* it, and the device accesses and registry lookups in their order        *)

Ctx(a) ==
    [a |-> a, ret |-> TRUE, exc |-> "none", offered |-> <<>>,
     reads |-> <<>>, writes |-> <<>>]

Raise(x, e) == [x EXCEPT !.exc = e, !.ret = FALSE]

\* a variant of ReturnNone: a method that returns nothing lets the outer
\* levels look the key up
ReturnNoneContinues(x) == [x EXCEPT !.ret = TRUE]

\* `return` / falling off the end: None, which `if should_continue:` takes
\* as False
ReturnNone(x) == [x EXCEPT !.ret = FALSE]

ReturnTrue(x) == [x EXCEPT !.ret = TRUE]

\* the getter of CtrlWidget.value and of its overrides: None when the ioctl
\* raises OSError
GetValue(x, id, granted) == IF granted THEN Some(x.a.dev[id]) ELSE PyNone

Read(x, id, granted) ==
    [x EXCEPT !.reads = Append(@, [id |-> id, granted |-> granted])]

\* a variant of IoctlRejected: the OSError leaves the setter
IoctlRejectedRaises(x, id, value) ==
    [x EXCEPT !.writes = Append(@, [id |-> id, value |-> value, accepted |-> FALSE]),
              !.exc = "OSError", !.ret = FALSE]

\* the setters' `except OSError: return`
IoctlRejected(x, id, value) ==
    [x EXCEPT !.writes = Append(@, [id |-> id, value |-> value, accepted |-> FALSE])]

\* the ioctl of a setter succeeds; a Button resets itself to 0
IoctlAccepted(x, c, value) ==
    [x EXCEPT !.a.dev[c.id] = IF c.type = "Button" THEN 0 ELSE value,
              !.writes = Append(@, [id |-> c.id, value |-> value, accepted |-> TRUE])]

\* c.value = value, for the setter of c's class; a StringCtrl is given
\* str(value).  `accepted`: the controls whose write the device accepts.
SetValue(x, c, value, accepted) ==
    LET minimum == Descriptor(c.type).minimum
        text == IF c.type = "String" /\ Len(value) < minimum
                THEN Spaces(minimum) ELSE value
    IN  IF c.type = "String" /\ ~IsAsciiStr(text)
        THEN Raise(x, "UnicodeEncodeError")
        ELSE IF c.id \in accepted
        THEN IoctlAccepted(x, c, text)
        ELSE IoctlRejected(x, c.id, text)

\* c.ctrl.default as c's setter takes it
DefaultOf(c) ==
    IF c.type = "String" THEN StrNat(Descriptor(c.type).default)
    ELSE IF c.type = "Bitmask" THEN U32(0, Descriptor(c.type).default)
    ELSE Descriptor(c.type).default

RECURSIVE SetDefaultFrom(_, _, _, _)
\* the loop of set_default_all from the k-th control on
SetDefaultFrom(x, ctrls, k, accepted) ==
    IF k > Len(ctrls) \/ x.exc # "none" THEN x
    ELSE SetDefaultFrom(SetValue(x, ctrls[k], DefaultOf(ctrls[k]), accepted),
                        ctrls, k + 1, accepted)

----------------------------------------------------------------------------
(* The handlers the registry names.  c is the selected control, o the     *)
(* device's answers during the step: o.granted, whether it grants a read, *)
(* and o.accepted, the controls whose write it accepts.                   *)

ActiveTab(a) == a.tabs[a.selected + 1]

\* a variant of MenuStep: the pointer wraps around at both ends
MenuStepWraps(x, c, by, o) ==
    LET sel == x.a.widgets[c.id].selected
        moved == (sel + by) % Len(MenuKeys)
    IN  ReturnNone(SetValue([x EXCEPT !.a.widgets[c.id].selected = moved],
                            c, MenuKeys[moved + 1], o.accepted))

\* MenuCtrl.next / MenuCtrl.prev: move the option pointer, write its option
MenuStep(x, c, by, o) ==
    LET sel == x.a.widgets[c.id].selected
        moved == IF 0 <= sel + by /\ sel + by <= Len(MenuKeys) - 1
                 THEN sel + by ELSE sel
    IN  ReturnNone(SetValue([x EXCEPT !.a.widgets[c.id].selected = moved],
                            c, MenuKeys[moved + 1], o.accepted))

\* BitmaskEditWidget.set(char)
BitmaskSet(w, char) == [w EXCEPT !.buffer[w.selected + 1] = char]

\* a variant of BitmaskDigitStep: out of edit mode the key is consumed
BitmaskDigitStepConsumes(x, c, by) ==
    LET w == x.a.widgets[c.id]
        digit == HexDigits[((HexValue(w.buffer[w.selected + 1]) + by) % 16) + 1]
    IN  IF w.in_edit
        THEN ReturnNone([x EXCEPT !.a.widgets[c.id] = BitmaskSet(w, digit)])
        ELSE ReturnNone(x)

\* a variant of BitmaskDigitStep: the digit stops at "0" and at "f"
BitmaskDigitStepSaturates(x, c, by) ==
    LET w == x.a.widgets[c.id]
        digit == HexDigits[Max2(Min2(HexValue(w.buffer[w.selected + 1]) + by, 15), 0) + 1]
    IN  IF w.in_edit
        THEN ReturnNone([x EXCEPT !.a.widgets[c.id] = BitmaskSet(w, digit)])
        ELSE ReturnTrue(x)

\* BitmaskEditWidget.inc / dec
BitmaskDigitStep(x, c, by) ==
    LET w == x.a.widgets[c.id]
        digit == HexDigits[((HexValue(w.buffer[w.selected + 1]) + by) % 16) + 1]
    IN  IF w.in_edit
        THEN ReturnNone([x EXCEPT !.a.widgets[c.id] = BitmaskSet(w, digit)])
        ELSE ReturnTrue(x)

\* a variant of BitmaskMove: the cursor is moved without min / max
BitmaskMoveUnclamped(x, c, by) ==
    LET w == x.a.widgets[c.id]
    IN  ReturnNone(IF w.in_edit
                   THEN [x EXCEPT !.a.widgets[c.id].selected = w.selected + by]
                   ELSE x)

\* BitmaskEditWidget.next / prev
BitmaskMove(x, c, by) ==
    LET w == x.a.widgets[c.id]
    IN  ReturnNone(IF w.in_edit
                   THEN [x EXCEPT !.a.widgets[c.id].selected =
                                      Max2(Min2(w.selected + by, 7), 0)]
                   ELSE x)

\* VideoController.next / prev on the active tab
MoveSelection(x, r) ==
    IF r.exc # "none" THEN Raise(x, r.exc)
    ELSE ReturnNone([x EXCEPT !.a.tabs[x.a.selected + 1] = r.vc])

\* a variant of SwitchTab: the tab that is left forgets its selection
SwitchTabForgets(x, selected) ==
    ReturnNone([x EXCEPT !.a.selected = selected,
                         !.a.tabs[x.a.selected + 1].selected_ctrl =
                             IF Len(ActiveTab(x.a).ctrls) > 0 THEN 0 ELSE @])

\* TabbedView.next / prev as handlers: `self.selected = ...` and nothing
\* else, selected being the new index
SwitchTab(x, selected) == ReturnNone([x EXCEPT !.a.selected = selected])

\* handler(self)
RunHandler(x, handler, c, o) ==
    CASE handler = "App.end" ->
             ReturnNone([x EXCEPT !.a.running = FALSE, !.a.released = TRUE])
      [] handler = "App.help" ->
             ReturnNone([x EXCEPT !.a.in_help = ~x.a.in_help])
      [] handler = "CtrlWidget.toggle_statusline" ->
             ReturnNone([x EXCEPT !.a.show_statusline = ~x.a.show_statusline])
      [] handler = "TabbedView.prev" ->
             SwitchTab(x, TabbedViewPrev(x.a.selected, Len(x.a.tabs)))
      [] handler = "TabbedView.next" ->
             SwitchTab(x, TabbedViewNext(x.a.selected, Len(x.a.tabs)))
      [] handler = "VideoController.set_default_selected" ->
             ReturnNone(SetValue(x, c, DefaultOf(c), o.accepted))
      [] handler = "VideoController.set_default_all" ->
             ReturnNone(SetDefaultFrom(x, ActiveTab(x.a).ctrls, 1, o.accepted))
      [] handler = "VideoController.prev" -> MoveSelection(x, VCPrev(ActiveTab(x.a)))
      [] handler = "VideoController.next" -> MoveSelection(x, VCNext(ActiveTab(x.a)))
      [] handler \in {"change_step(-1)", "change_step(+1)", "change_step(-10)",
                      "change_step(+10)", "change_percent(-1)",
                      "change_percent(+1)", "change_percent(-10)",
                      "change_percent(+10)", "set_value(-inf)",
                      "set_value(inf)"} ->
             \* IntCtrl defines inc and statusline only
             Raise(x, "AttributeError")
      [] handler = "BoolCtrl.true" -> ReturnNone(SetValue(x, c, 1, o.accepted))
      [] handler = "BoolCtrl.false" -> ReturnNone(SetValue(x, c, 0, o.accepted))
      [] handler = "BoolCtrl.neg" ->
             LET v == GetValue(x, c.id, o.granted)
                 negated == IF IsNone(v) \/ Val(v) = 0 THEN 1 ELSE 0
             IN  ReturnNone(SetValue(Read(x, c.id, o.granted), c, negated,
                                     o.accepted))
      [] handler = "ButtonCtrl.click" -> ReturnNone(SetValue(x, c, 1, o.accepted))
      [] handler = "MenuCtrl.prev" -> MenuStep(x, c, -1, o)
      [] handler = "MenuCtrl.next" -> MenuStep(x, c, 1, o)
      [] handler = "BitmaskCtrl.prev" -> BitmaskMove(x, c, -1)
      [] handler = "BitmaskCtrl.next" -> BitmaskMove(x, c, 1)
      [] handler = "BitmaskCtrl.inc" -> BitmaskDigitStep(x, c, 1)
      [] handler = "BitmaskCtrl.dec" -> BitmaskDigitStep(x, c, -1)

\* a level's on_keypress answered: which handler it ran ("None": no entry
\* of the registry) and whether the key goes on to the next level
Offered(x, level, handler) ==
    [x EXCEPT !.offered = Append(@, [level |-> level, handler |-> handler,
                                     cont |-> x.ret])]

\* `if handler is not None: return handler(self)`, `else: return True`
CallHandler(x, level, handler, c, o) ==
    IF handler # "None"
    THEN Offered(RunHandler(x, handler, c, o), level, handler)
    ELSE Offered(ReturnTrue(x), level, "None")

\* Widget.on_keypress of an object of class cls
WidgetOnKeypress(x, level, cls, key, c, o) ==
    CallHandler(x, level, GetHandler(cls, key), c, o)

\* a variant of StringAppend: the key is appended whatever the length
StringAppendAlways(buffer, key, maximum) == Append(buffer, key)

\* `if len(self.text_field.buffer) < self.ctrl.maximum:
\*      self.text_field.buffer += key`
StringAppend(buffer, key, maximum) ==
    IF Len(buffer) < maximum THEN Append(buffer, key) ELSE buffer

\* StringCtrl.on_keypress
StringCtrlOnKeypress(x, c, key, o) ==
    LET w == x.a.widgets[c.id]
    IN  IF w.in_edit /\ key = "ENTER"
        THEN Offered(ReturnNone(
                 SetValue([x EXCEPT !.a.widgets[c.id].value = Some(w.buffer),
                                    !.a.widgets[c.id].in_edit = FALSE],
                          c, w.buffer, o.accepted)),
                 "ctrl", "StringCtrl.on_keypress")
        ELSE IF w.in_edit /\ key = "KEY_BACKSPACE"
        THEN Offered(ReturnNone(
                 [x EXCEPT !.a.widgets[c.id].buffer =
                               SubSeq(w.buffer, 1, Len(w.buffer) - 1)]),
                 "ctrl", "StringCtrl.on_keypress")
        ELSE IF w.in_edit /\ key = "ESC"
        THEN Offered(ReturnNone([x EXCEPT !.a.widgets[c.id].in_edit = FALSE]),
                     "ctrl", "StringCtrl.on_keypress")
        ELSE IF w.in_edit
        THEN Offered(ReturnNone(
                 [x EXCEPT !.a.widgets[c.id].buffer =
                               StringAppend(w.buffer, key, Descriptor(c.type).maximum)]),
                 "ctrl", "StringCtrl.on_keypress")
        ELSE IF key = "ENTER"
        THEN Offered(ReturnNone(
                 [x EXCEPT !.a.widgets[c.id].buffer = Val(w.value),
                           !.a.widgets[c.id].in_edit = TRUE]),
                 "ctrl", "StringCtrl.on_keypress")
        ELSE WidgetOnKeypress(x, "ctrl", "StringCtrl", key, c, o)

\* BitmaskCtrl.on_keypress
BitmaskCtrlOnKeypress(x, c, key, o) ==
    LET w == x.a.widgets[c.id]
    IN  IF w.in_edit /\ key = "ENTER"
        THEN Offered(ReturnNone(
                 SetValue([x EXCEPT !.a.widgets[c.id].value = Some(FromHex(w.buffer)),
                                    !.a.widgets[c.id].in_edit = FALSE],
                          c, FromHex(w.buffer), o.accepted)),
                 "ctrl", "BitmaskCtrl.on_keypress")
        ELSE IF w.in_edit /\ key = "ESC"
        THEN Offered(
                 IF IsNone(w.value)
                 THEN Raise([x EXCEPT !.a.widgets[c.id].in_edit = FALSE],
                            "AttributeError")
                 ELSE ReturnNone([x EXCEPT !.a.widgets[c.id].in_edit = FALSE,
                                           !.a.widgets[c.id].buffer = ToHex(Val(w.value))]),
                 "ctrl", "BitmaskCtrl.on_keypress")
        ELSE IF w.in_edit /\ IsHexDigit(key)
        THEN Offered(
                 BitmaskMove([x EXCEPT !.a.widgets[c.id] = BitmaskSet(w, key)], c, 1),
                 "ctrl", "BitmaskCtrl.on_keypress")
        ELSE IF key = "ENTER"
        THEN Offered(
                 IF IsNone(w.value) THEN Raise(x, "AttributeError")
                 ELSE ReturnNone([x EXCEPT !.a.widgets[c.id].buffer = ToHex(Val(w.value)),
                                           !.a.widgets[c.id].in_edit = TRUE]),
                 "ctrl", "BitmaskCtrl.on_keypress")
        ELSE WidgetOnKeypress(x, "ctrl", "BitmaskCtrl", key, c, o)

\* c.on_keypress(key) for the selected control c
CtrlOnKeypress(x, c, key, o) ==
    CASE c.type = "String" -> StringCtrlOnKeypress(x, c, key, o)
      [] c.type = "Bitmask" -> BitmaskCtrlOnKeypress(x, c, key, o)
      [] OTHER -> WidgetOnKeypress(x, "ctrl", ClassOf(c.type), key, c, o)

\* a variant of ShouldContinue: the outer level looks the key up whatever
\* the inner level returned
ShouldContinueAlways(x) == x.exc = "none"

\* `if should_continue:` after the inner level returned
ShouldContinue(x) == x.exc = "none" /\ x.ret

\* the control self.ctrls[self.selected_ctrl] of a VideoController; Python
\* counts a negative index from the end
SelectedCtrl(v) ==
    IF v.selected_ctrl >= 0 THEN v.ctrls[v.selected_ctrl + 1]
    ELSE v.ctrls[Len(v.ctrls) + v.selected_ctrl + 1]

HasSelectedCtrl(v) ==
    /\ v.selected_ctrl < Len(v.ctrls)
    /\ -Len(v.ctrls) <= v.selected_ctrl

NoCtrl == [id |-> 0, type |-> "none"]

\* `if should_continue: return super().on_keypress(key)` of the object of
\* class cls, `inner` being what the inner level's on_keypress came to
SuperOnKeypress(inner, cls, key, c, o) ==
    IF ShouldContinue(inner)
    THEN WidgetOnKeypress(inner, cls, cls, key, c, o)
    ELSE ReturnNone(inner)

\* VideoController.on_keypress of the active tab
VideoControllerOnKeypress(x, key, o) ==
    IF ~HasSelectedCtrl(ActiveTab(x.a)) THEN Raise(x, "IndexError")
    ELSE SuperOnKeypress(CtrlOnKeypress(x, SelectedCtrl(ActiveTab(x.a)), key, o),
                         "VideoController", key,
                         SelectedCtrl(ActiveTab(x.a)), o)

\* TabbedView.on_keypress
TabbedViewOnKeypress(x, key, o) ==
    SuperOnKeypress(VideoControllerOnKeypress(x, key, o),
                    "TabbedView", key, NoCtrl, o)

\* App.on_keypress
AppOnKeypress(x, key, o) ==
    SuperOnKeypress(IF x.a.has_tabs THEN TabbedViewOnKeypress(x, key, o)
                    ELSE ReturnTrue(x),
                    "App", key, NoCtrl, o)

----------------------------------------------------------------------------
(* Drawing *)

\* CtrlWidget.update followed by the draw of the widget showing the value
\* (w: its state, v: what the getter returned)
UpdatedWidget(type, w, v) ==
    CASE type \in {"Menu", "IntegerMenu"} ->
             IF ~IsNone(v) /\ InMenuKeys(Val(v))
             THEN [w EXCEPT !.selected = MenuIndex(Val(v))] ELSE w
      [] type = "String" ->
             \* TextField.draw: self.value = str(self.value)
             [w EXCEPT !.value = IF IsNone(v) THEN Some(StrNone) ELSE v]
      [] OTHER -> [w EXCEPT !.value = v]

\* the exception the draw of the widget raises
WidgetDrawExc(type, w) ==
    CASE type \in {"Integer", "Integer64"} /\ IsNone(w.value) ->
             "TypeError"        \* BarLabeled.draw: self.value - self.min
      [] type = "Bitmask" /\ ~w.in_edit /\ IsNone(w.value) ->
             "AttributeError"   \* self.value.to_bytes
      [] OTHER -> "none"

\* the kinds whose statusline property reads the value
StatuslineReads(type) == type \notin {"Button", "CtrlClass"}

\* c.draw(...) and, for the selected control, c.draw_statusline(...)
DrawCtrl(x, c, selected, granted) ==
    LET ok == c.id \in granted
        w == UpdatedWidget(c.type, x.a.widgets[c.id], GetValue(x, c.id, ok))
        x1 == Read([x EXCEPT !.a.widgets[c.id] = w], c.id, ok)
    IN  IF WidgetDrawExc(c.type, w) # "none"
        THEN Raise(x1, WidgetDrawExc(c.type, w))
        ELSE IF selected /\ x.a.show_statusline /\ StatuslineReads(c.type)
        THEN Read(x1, c.id, ok)
        ELSE x1

\* window.addstr(y, x, text) of a text that ends within its row: curses
\* raises its error when the row is not on the screen
OffScreen(a, y) == y >= a.term_h

\* window.addstr(y, x, text) of a Label as wide as the screen: the text
\* runs to the end of its row or into the next one, and curses raises its
\* error when it reaches the last cell of the screen
WideLabelFails(a, y) == y >= a.term_h - 1

\* the lines of the help overlay: one for each key displayed
HelpLines == Cardinality({KEYBINDS[i].key : i \in DOMAIN KEYBINDS})

\* c.draw(window, w, h, x, y): update() reads the value, then the widgets
\* of the row are drawn at row y
DrawCtrlAt(x, c, selected, granted, y) ==
    IF OffScreen(x.a, y)
    THEN LET ok == c.id \in granted
             w == UpdatedWidget(c.type, x.a.widgets[c.id], GetValue(x, c.id, ok))
         IN  Raise(Read([x EXCEPT !.a.widgets[c.id] = w], c.id, ok), "curses.error")
    ELSE DrawCtrl(x, c, selected, granted)

RECURSIVE DrawCtrlsFrom(_, _, _, _, _)
\* the loop of VideoController.draw over self.ctrls[k : stop], the control
\* at k being enumerated as i and drawn at row 4 + 2 * (i - start)
DrawCtrlsFrom(x, k, stop, i, granted) ==
    IF k >= stop \/ x.exc # "none" THEN x
    ELSE LET v == ActiveTab(x.a)
         IN  DrawCtrlsFrom(DrawCtrlAt(x, v.ctrls[k + 1], v.selected_ctrl = i, granted,
                                      4 + 2 * (i - v.visible_start)),
                           k + 1, stop, i + 1, granted)

\* TabbedView.draw(window, w, h, x, y): the titles are drawn at row 2,
\* the active VideoController is drawn with h - 2
TabbedViewDraw(x, h, granted) ==
    LET r == VCDraw(ActiveTab(x.a), h - 2)
        n == Len(r.vc.ctrls)
    IN  IF OffScreen(x.a, 2) THEN Raise(x, "curses.error")
        ELSE IF r.exc # "none" THEN Raise(x, r.exc)
        ELSE DrawCtrlsFrom([x EXCEPT !.a.tabs[x.a.selected + 1] = r.vc],
                           SliceBound(r.vc.visible_start, n),
                           SliceBound(r.vc.visible_stop, n),
                           r.vc.visible_start, granted)

\* App.draw, the terminal being term_h rows high: the title in row 0, then
\* the help overlay from row 2 on, or the "no controls" Label in row 2, or
\* the tabs
AppDraw(x, granted) ==
    IF WideLabelFails(x.a, 0) THEN Raise(x, "curses.error")
    ELSE IF x.a.in_help
    THEN IF OffScreen(x.a, 2 + HelpLines - 1) THEN Raise(x, "curses.error")
         ELSE ReturnNone(x)
    ELSE IF ~x.a.has_tabs
    THEN IF WideLabelFails(x.a, 2) THEN Raise(x, "curses.error")
         ELSE ReturnNone(x)
    ELSE ReturnNone(TabbedViewDraw(x, x.a.term_h - 2, granted))

\* a variant of AppEnd: the loop is stopped, the terminal is left as it is
AppEndLeavesTerminal(a) == [a EXCEPT !.running = FALSE]

\* App.end
AppEnd(a) == [a EXCEPT !.running = FALSE, !.released = TRUE]

----------------------------------------------------------------------------
(* Spec: the interactive session, main() from App(device) on *)

\* the keys the user presses
Keys ==
    {"q", "?", "s", "KEY_TAB", "KEY_STAB", "d", "D", "k", "j", "h", "l",
     "^", "$", "KEY_HOME", "KEY_END", "ENTER", "ESC", "KEY_BACKSPACE", "z"}

\* the control the active tab has selected, NoCtrl if there is none
Target(a) ==
    IF a.has_tabs /\ HasSelectedCtrl(ActiveTab(a)) THEN SelectedCtrl(ActiveTab(a))
    ELSE NoCtrl

\* the ids of the controls of the active tab
ActiveIds(a) ==
    IF a.has_tabs
    THEN {ActiveTab(a).ctrls[k].id : k \in 1 .. Len(ActiveTab(a).ctrls)}
    ELSE {}

Step(op, key, a, x) ==
    [op |-> op, key |-> key, target |-> Target(a), offered |-> x.offered,
     reads |-> x.reads, writes |-> x.writes, exc |-> x.exc,
     after_end |-> <<>>,
     selection |-> IF a.has_tabs
                   THEN [tab |-> a.selected,
                         selected_ctrl |-> ActiveTab(a).selected_ctrl,
                         visible_start |-> ActiveTab(a).visible_start,
                         visible_stop |-> ActiveTab(a).visible_stop]
                   ELSE [tab |-> -1, selected_ctrl |-> -1,
                         visible_start |-> 0, visible_stop |-> 0]]

\* the edits the user has made so far, this step's included: an edit is
\* opened, or the buffer of an open one is changed
TypedAfter(a, b) ==
    IF \E i \in DOMAIN b.widgets :
          /\ b.widgets[i].in_edit
          /\ (~a.widgets[i].in_edit \/ a.widgets[i].buffer # b.widgets[i].buffer)
    THEN typed + 1
    ELSE typed

\* the keys the user types into the text of a String control
Typeable == {"q", "KEY_HOME"}

\* the states the exploration keeps to: at most MaxTyped edits, made with
\* the help closed and the statusline hidden, nothing but Typeable typed
\* into a text, the cursor of a bitmask within MaxCursor
WithinBounds(a, b, n) ==
    /\ n <= MaxTyped
    /\ n > 0 => (~b.in_help /\ ~b.show_statusline)
    /\ \A i \in DOMAIN b.widgets :
          /\ (b.enum[i].type = "String" /\ a.widgets[i].in_edit
                  /\ Len(b.widgets[i].buffer) > Len(a.widgets[i].buffer)) =>
                 b.widgets[i].buffer[Len(b.widgets[i].buffer)] \in Typeable
          /\ (b.enum[i].type = "Bitmask" /\ b.widgets[i].in_edit) =>
                 b.widgets[i].selected <= MaxCursor

SpecInit ==
    /\ VCIdle
    /\ ICIdle
    /\ RowIdle
    /\ KBIdle
    /\ TVIdle
    /\ \E enum \in Enumerations : \E term_h \in {MaxRows} :
          app = AppInit(enum, term_h)
    /\ pc = "draw"
    /\ last = NoStep
    /\ typed = 0

\* app.draw() came to x
Drawn(x) ==
    /\ app' = x.a
    /\ pc' = IF x.exc = "none" THEN "getch" ELSE "crashed"
    /\ last' = Step("draw", "", app, x)

\* app.draw()
Draw ==
    /\ pc = "draw"
    /\ \E granted \in SUBSET ActiveIds(app) : Drawn(AppDraw(Ctx(app), granted))
    /\ UNCHANGED <<typed, vcvars, icvars, rowvars, kbvars, tvvars>>

\* the device's answers to the accesses on_keypress(key) makes: whether it
\* grants the read, if there is one, and which of the writes it accepts
AnswersTo(x) ==
    [granted : IF x.reads = <<>> THEN {TRUE} ELSE BOOLEAN,
     accepted : SUBSET {x.writes[k].id : k \in 1 .. Len(x.writes)}]

\* the accesses are those of the call in which the device grants everything
Answers(a, key) ==
    AnswersTo(AppOnKeypress(Ctx(a), key,
                            [granted |-> TRUE, accepted |-> ActiveIds(a)]))

\* self.win.getch(): the window is refreshed first, which takes the
\* terminal back into curses mode if endwin() had left it
AppGetch(a) == [a EXCEPT !.released = FALSE]

\* app.on_keypress(key) came to x
KeyPressed(key, x) ==
    /\ WithinBounds(app, x.a, TypedAfter(app, x.a))
    /\ app' = x.a
    /\ typed' = TypedAfter(app, x.a)
    /\ pc' = IF x.exc = "none" THEN "valid" ELSE "crashed"
    /\ last' = Step("key", key, app, x)

\* c = app.getch() returned a key: app.on_keypress(chr(c))
KeyPress ==
    /\ pc = "getch"
    /\ \E key \in Keys : \E o \in Answers(app, key) :
          KeyPressed(key, AppOnKeypress(Ctx(AppGetch(app)), key, o))
    /\ UNCHANGED <<vcvars, icvars, rowvars, kbvars, tvvars>>

\* getch() timed out: no key within a second.  The time limit is that of
\* curses.halfdelay(10), which the curses.nocbreak() of App.end takes away
NoKey ==
    /\ pc = "getch"
    /\ ~app.released
    /\ app' = AppGetch(app)
    /\ pc' = "valid"
    /\ last' = Step("nokey", "", app, Ctx(app))
    /\ UNCHANGED <<typed, vcvars, icvars, rowvars, kbvars, tvvars>>

\* is_valid_device(device) holds: back to `while app.running`
StillValid ==
    /\ pc = "valid"
    /\ pc' = IF app.running THEN "draw" ELSE "exited"
    /\ last' = Step("valid", "", app, Ctx(app))
    /\ UNCHANGED <<app, typed, vcvars, icvars, rowvars, kbvars, tvvars>>

\* is_valid_device(device) fails: app.end(), "Disconnected", break
Disconnected ==
    /\ pc = "valid"
    /\ app' = AppEnd(app)
    /\ pc' = "exited"
    /\ last' = Step("disconnected", "", app, Ctx(app))
    /\ UNCHANGED <<typed, vcvars, icvars, rowvars, kbvars, tvvars>>

Next == Draw \/ KeyPress \/ NoKey \/ StillValid \/ Disconnected

Spec == SpecInit /\ [][Next]_vars

----------------------------------------------------------------------------
(* SpecEdit: the session on a device with one String or one Bitmask       *)
(* control, with more edits than Spec allows and the cursor of the        *)
(* bitmask anywhere                                                       *)

EditTypes == {"String", "Bitmask"}

EditEnumerations ==
    {enum \in Enumerations : Len(enum) = 1 /\ enum[1].type \in EditTypes}

\* the keys the user presses besides Typeable: Enter, Escape, Backspace, the
\* cursor and nibble keys, hex digits in both cases
EditKeys ==
    {"ENTER", "ESC", "KEY_BACKSPACE", "h", "l", "j", "k", "f", "D"}

EditInit ==
    /\ VCIdle
    /\ ICIdle
    /\ RowIdle
    /\ KBIdle
    /\ TVIdle
    /\ \E enum \in EditEnumerations : app = AppInit(enum, MaxRows)
    /\ pc = "draw"
    /\ last = NoStep
    /\ typed = 0

\* app.on_keypress(key) came to x; at most MaxEdits edits, nothing but
\* Typeable typed into a text
EditKeyPressed(key, x) ==
    /\ TypedAfter(app, x.a) <= MaxEdits
    /\ (app.enum[1].type = "String" /\ app.widgets[1].in_edit
            /\ Len(x.a.widgets[1].buffer) > Len(app.widgets[1].buffer)) =>
           key \in Typeable
    /\ app' = x.a
    /\ typed' = TypedAfter(app, x.a)
    /\ pc' = IF x.exc = "none" THEN "valid" ELSE "crashed"
    /\ last' = Step("key", key, app, x)

\* c = app.getch() returned a key: app.on_keypress(chr(c))
EditKeyPress ==
    /\ pc = "getch"
    /\ \E key \in EditKeys \cup Typeable : \E o \in Answers(app, key) :
          EditKeyPressed(key, AppOnKeypress(Ctx(AppGetch(app)), key, o))
    /\ UNCHANGED <<vcvars, icvars, rowvars, kbvars, tvvars>>

EditNext == Draw \/ EditKeyPress \/ NoKey \/ StillValid \/ Disconnected

SpecEdit == EditInit /\ [][EditNext]_vars

----------------------------------------------------------------------------
(* SpecLoop: the session on terminals of several heights, with SIGINT.    *)
(* signal.signal(SIGINT, lambda s, f: app.end()): Python runs the handler *)
(* in the main thread between two bytecode instructions, wherever the     *)
(* loop happens to be.                                                     *)

LoopCtrl(id, type) == [id |-> id, type |-> type, name |-> "control"]

\* a device without controls, one with a Boolean, one with an Integer and a
\* Boolean
LoopEnumerations ==
    {<<>>, <<LoopCtrl(1, "Boolean")>>,
     <<LoopCtrl(1, "Integer"), LoopCtrl(2, "Boolean")>>}

\* the heights of the terminal: 24 rows is the usual one
LoopRows == {1, 2, 3, 5, 24, MaxRows}

LoopInit ==
    /\ VCIdle
    /\ ICIdle
    /\ RowIdle
    /\ KBIdle
    /\ TVIdle
    /\ \E enum \in LoopEnumerations : \E term_h \in LoopRows :
          app = AppInit(enum, term_h)
    /\ pc = "draw"
    /\ last = NoStep
    /\ typed = 0

\* SIGINT arrives between two statements of the loop: app.end() runs, the
\* loop goes on from where it was
Sigint ==
    /\ pc \in {"draw", "getch", "valid"}
    /\ app.running
    /\ app' = AppEnd(app)
    /\ last' = Step("sigint", "", app, Ctx(app))
    /\ UNCHANGED <<pc, typed, vcvars, icvars, rowvars, kbvars, tvvars>>

\* SIGINT arrives while app.draw() runs, after `cut` of the device reads of
\* the frame: app.end() runs, then the rest of the frame
SigintInDraw ==
    /\ pc = "draw"
    /\ app.running
    /\ \E granted \in SUBSET ActiveIds(app) :
          LET x == AppDraw(Ctx(app), granted)
          IN  \E cut \in 0 .. Len(x.reads) :
                 /\ app' = AppEnd(x.a)
                 /\ pc' = IF x.exc = "none" THEN "getch" ELSE "crashed"
                 /\ last' = [Step("sigint_draw", "", app, x) EXCEPT
                                !.after_end = SubSeq(x.reads, cut + 1, Len(x.reads))]
    /\ UNCHANGED <<typed, vcvars, icvars, rowvars, kbvars, tvvars>>

\* SIGINT arrives while getch() waits: the wait is interrupted, app.end()
\* runs, getch() returns -1
SigintInGetch ==
    /\ pc = "getch"
    /\ app.running
    /\ app' = AppEnd(AppGetch(app))
    /\ pc' = "valid"
    /\ last' = Step("sigint_getch", "", app, Ctx(app))
    /\ UNCHANGED <<typed, vcvars, icvars, rowvars, kbvars, tvvars>>

LoopNext ==
    \/ Draw
    \/ KeyPress
    \/ NoKey
    \/ StillValid
    \/ Disconnected
    \/ Sigint
    \/ SigintInDraw
    \/ SigintInGetch

SpecLoop == LoopInit /\ [][LoopNext]_vars

----------------------------------------------------------------------------
(* SpecType: the session on a device with a String control and a Boolean  *)
(* one, in one tab or in two, the keys of the app typed into the text     *)

TypeEnumerations ==
    {<<LoopCtrl(1, "String"), LoopCtrl(2, "Boolean")>>,
     <<LoopCtrl(1, "String"),
       [id |-> 2, type |-> "CtrlClass", name |-> ClassNames[2]],
       LoopCtrl(3, "Boolean")>>}

\* Enter and Escape, and keys that are bound at the outer levels
TypeKeys == {"ENTER", "ESC", "q", "j", "d", "s", "KEY_TAB"}

TypeInit ==
    /\ VCIdle
    /\ ICIdle
    /\ RowIdle
    /\ KBIdle
    /\ TVIdle
    /\ \E enum \in TypeEnumerations : app = AppInit(enum, MaxRows)
    /\ pc = "draw"
    /\ last = NoStep
    /\ typed = 0

\* c = app.getch() returned a key: app.on_keypress(chr(c))
TypeKeyPress ==
    /\ pc = "getch"
    /\ \E key \in TypeKeys : \E o \in Answers(app, key) :
          LET x == AppOnKeypress(Ctx(AppGetch(app)), key, o)
          IN  /\ app' = x.a
              /\ pc' = IF x.exc = "none" THEN "valid" ELSE "crashed"
              /\ last' = Step("key", key, app, x)
    /\ UNCHANGED <<typed, vcvars, icvars, rowvars, kbvars, tvvars>>

TypeNext == Draw \/ TypeKeyPress \/ NoKey \/ StillValid \/ Disconnected

SpecType == TypeInit /\ [][TypeNext]_vars

----------------------------------------------------------------------------
(* Claims *)

\* C1 (SpecVC): for a group with at least one selectable control rendered at
\* one fixed height h with h // 2 >= 1, after every next() and prev() the
\* selected index lies in the visible window:
\* visible_ctrls.start <= selected_ctrl < visible_ctrls.stop.
C1_SelectedInWindow ==
    (/\ Len(vc.ctrls) >= 1
     /\ vc_h >= 2
     /\ ~vc_resized
     /\ vc_op \in {"next", "prev"}
     /\ vc_exc = "none")
    => (vc.visible_start <= vc.selected_ctrl /\ vc.selected_ctrl < vc.visible_stop)

RECURSIVE DrawnWidth(_)
\* the sum of the widths of the child draw() calls d
DrawnWidth(d) == IF d = <<>> THEN 0 ELSE Head(d).w + DrawnWidth(Tail(d))

\* C6 (SpecRow): for every Row with positive weights and every w >= 1 the
\* widths of the children drawn sum to exactly w, the last child (when it is
\* drawn) has width w minus the widths drawn before it, and no child is drawn
\* past column x + w.
C6_RowFillsWidth ==
    (row_op = "draw") =>
        /\ DrawnWidth(row_drawn) = row_w
        /\ \A k \in 1 .. Len(row_drawn) :
              /\ row_drawn[k].x + row_drawn[k].w <= row_x + row_w
              /\ (row_drawn[k].child = Len(row_columns)
                    => row_drawn[k].w = row_w - DrawnWidth(SubSeq(row_drawn, 1, k - 1)))

IncReturned == ic_call.op = "inc" /\ ic_call.exc = "none"

\* delta * (maximum - minimum) / 100, in thousandths
IncExactChange1000 == ic_call.d10 * (ic_ctrl.maximum - ic_ctrl.minimum)

\* round() of the exact change, to the nearest integer
IncRoundedChange ==
    IF IncExactChange1000 >= 0
    THEN RoundHalfEven(IncExactChange1000, 1000)
    ELSE -RoundHalfEven(-IncExactChange1000, 1000)

\* C7 as stated (SpecInc): with the raw change of inc(delta) taken as
\* delta * (maximum - minimum) / 100 rounded to the nearest integer, whenever
\* that rounded change is non-zero the value before clamping is the current
\* value plus the rounded change.
C7_RoundedToNearest ==
    (IncReturned /\ IncRoundedChange # 0)
        => ic_call.unclamped = ic_call.before + IncRoundedChange

\* C7 as amended (SpecInc): inc(delta) computes the raw change as
\* delta * (maximum - minimum) / 100 truncated toward zero, and when that is
\* non-zero the value before clamping is the current value plus it.
C7_TruncatedTowardZero ==
    IncReturned =>
        /\ (IncExactChange1000 >= 0
              => /\ 1000 * ic_call.raw <= IncExactChange1000
                 /\ IncExactChange1000 < 1000 * (ic_call.raw + 1))
        /\ (IncExactChange1000 < 0
              => /\ 1000 * (ic_call.raw - 1) < IncExactChange1000
                 /\ IncExactChange1000 <= 1000 * ic_call.raw)
        /\ (ic_call.raw # 0 => ic_call.unclamped = ic_call.before + ic_call.raw)

\* C7's case: 10 percent of a span of 16 is 1.6, written as a change of 1
C7_Witness ==
    /\ IncReturned
    /\ ic_call.accepted
    /\ ic_call.d10 = 100
    /\ ic_ctrl.maximum - ic_ctrl.minimum = 16
    /\ ic_call.raw = 1
    /\ ic_dev = ic_call.before + 1

\* C8 (SpecInc): when the raw percentage change of inc(delta) comes out as 0,
\* the value moves by exactly one step in the direction of delta's sign, then
\* clamped; with minimum 0, maximum 100, step 5, inc(+1) moves the value by 1
\* and inc(+0.1) moves it by 5.
C8_FallbackToStep ==
    LET target == ic_call.before
                  + (IF ic_call.d10 > 0 THEN ic_ctrl.step ELSE -ic_ctrl.step)
        example == ic_ctrl = [minimum |-> 0, maximum |-> 100, step |-> 5]
    IN  /\ (IncReturned /\ ic_call.raw = 0)
              => /\ ic_call.unclamped = target
                 /\ ic_call.written =
                        (IF target < ic_ctrl.minimum THEN ic_ctrl.minimum
                         ELSE IF target > ic_ctrl.maximum THEN ic_ctrl.maximum
                         ELSE target)
                 /\ (ic_call.accepted => ic_dev = ic_call.written)
        /\ (IncReturned /\ example /\ ic_call.d10 = 10 /\ ic_call.before <= 99)
              => ic_call.written = ic_call.before + 1
        /\ (IncReturned /\ example /\ ic_call.d10 = 1 /\ ic_call.before <= 95)
              => (ic_call.raw = 0 /\ ic_call.written = ic_call.before + 5)

\* C8's case: inc(+0.1) on 0..100 step 5 moved the device value from 40 to 45
C8_Witness ==
    /\ IncReturned
    /\ ic_call.accepted
    /\ ic_ctrl = [minimum |-> 0, maximum |-> 100, step |-> 5]
    /\ ic_call.d10 = 1
    /\ ic_call.raw = 0
    /\ ic_call.before = 40
    /\ ic_dev = 45

\* C9 (SpecInc): the value inc() writes lies in [minimum, maximum]; a request
\* of -1000 percent writes exactly minimum, one of +1000 percent exactly
\* maximum.
C9_WrittenInRange ==
    IncReturned =>
        /\ ic_ctrl.minimum <= ic_call.written
        /\ ic_call.written <= ic_ctrl.maximum
        /\ (ic_call.d10 = -10000 => ic_call.written = ic_ctrl.minimum)
        /\ (ic_call.d10 = 10000 => ic_call.written = ic_ctrl.maximum)

\* C9's case: a change past the maximum was cut down to the maximum
C9_Witness ==
    /\ IncReturned
    /\ ic_call.accepted
    /\ ic_call.unclamped > ic_ctrl.maximum
    /\ ic_call.before < ic_ctrl.maximum
    /\ ic_dev = ic_ctrl.maximum

\* C2: every VideoController that App.__init__ constructs holds at least
\* one selectable control and its selected_ctrl is a valid index of ctrls,
\* in every reachable state: the assertion of draw() holds and next() and
\* prev() never run on an empty list.
C2_ControllersHaveSelectable ==
    app.has_tabs =>
        \A t \in 1 .. Len(app.tabs) :
            /\ Len(app.tabs[t].ctrls) >= 1
            /\ 0 <= app.tabs[t].selected_ctrl
            /\ app.tabs[t].selected_ctrl < Len(app.tabs[t].ctrls)

\* a read of the step was denied
ReadDenied == \E k \in 1 .. Len(last.reads) : ~last.reads[k].granted

\* C3: a render pass in which the device denies the read of a visible
\* control still completes, whatever the kind of the control, and the
\* session is not aborted.
C3_DeniedReadDrawCompletes ==
    (last.op = "draw" /\ ReadDenied) => (last.exc = "none" /\ pc # "crashed")

\* a write of the step was rejected
WriteRejected == \E k \in 1 .. Len(last.writes) : ~last.writes[k].accepted

\* the selection as Step records it
Selection(a) ==
    [tab |-> a.selected,
     selected_ctrl |-> ActiveTab(a).selected_ctrl,
     visible_start |-> ActiveTab(a).visible_start,
     visible_stop |-> ActiveTab(a).visible_stop]

\* C4: a keypress whose write the device rejects returns normally, the
\* session keeps running, and the selected index, the visible window and
\* the active tab are what they were before the key.
C4_RejectedWriteHarmless ==
    (last.op = "key" /\ WriteRejected) =>
        /\ last.exc = "none"
        /\ pc = "valid"
        /\ app.running
        /\ Selection(app) = last.selection

\* the commit of a String control's text was rejected
C4_Witness ==
    /\ last.op = "key"
    /\ last.key = "ENTER"
    /\ last.target.type = "String"
    /\ WriteRejected
    /\ pc = "valid"

\* the levels a key is offered to, the innermost first
Levels == <<"ctrl", "VideoController", "TabbedView", "App">>

\* C5: a key is offered to the selected control, then the scroll
\* controller, then the tabbed view, then the app; a level is reached only
\* if every level before it returned the key unresolved, and a key some
\* level resolved goes no further.
C5_InnerLevelsFirst ==
    last.op = "key" =>
        LET first == IF app.has_tabs THEN 1 ELSE 4
            n == Len(last.offered)
        IN  /\ \A k \in 1 .. n : last.offered[k].level = Levels[first + k - 1]
            /\ \A k \in 2 .. n : last.offered[k - 1].cont
            /\ (last.exc = "none" /\ first + n - 1 < 4) =>
                   (n >= 1 /\ ~last.offered[n].cont)

\* the selected control resolved a key that an outer level binds
C5_Witness ==
    /\ last.op = "key"
    /\ Len(last.offered) = 1
    /\ last.offered[1].level = "ctrl"
    /\ ~last.offered[1].cont
    /\ last.exc = "none"
    /\ \/ GetHandler("VideoController", last.key) # "None"
       \/ GetHandler("App", last.key) # "None"

\* C10: the keys ^ and Home, pressed on a selected Integer or Integer64
\* control, write exactly the descriptor's minimum to the device, the keys
\* $ and End exactly its maximum.
C10_MinMaxKeysWriteBounds ==
    (/\ last.op = "key"
     /\ last.key \in {"^", "KEY_HOME", "$", "KEY_END"}
     /\ last.target.type \in {"Integer", "Integer64"}) =>
        /\ last.exc = "none"
        /\ Len(last.writes) = 1
        /\ last.writes[1].id = last.target.id
        /\ last.writes[1].value =
               IF last.key \in {"^", "KEY_HOME"}
               THEN Descriptor(last.target.type).minimum
               ELSE Descriptor(last.target.type).maximum

\* the handler the selected control ran for the key of the last step
CtrlHandler ==
    IF last.op = "key" /\ Len(last.offered) >= 1 /\ last.offered[1].level = "ctrl"
    THEN last.offered[1].handler
    ELSE "None"

MenuTypes == {"Menu", "IntegerMenu"}

\* C11: the selection pointer of a Menu is always within
\* [0, number of options - 1]; next() at the last option and prev() at the
\* first leave it where it is, and anywhere else each moves it by exactly
\* one.
C11_MenuPointerClamped ==
    [][\A i \in DOMAIN app.widgets :
          app.enum[i].type \in MenuTypes =>
              LET p == app.widgets[i].selected
                  q == app'.widgets[i].selected
                  n == Len(MenuKeys)
              IN  /\ 0 <= q /\ q <= n - 1
                  /\ (last'.target.id = i /\ CtrlHandler' = "MenuCtrl.next") =>
                         q = (IF p = n - 1 THEN p ELSE p + 1)
                  /\ (last'.target.id = i /\ CtrlHandler' = "MenuCtrl.prev") =>
                         q = (IF p = 0 THEN p ELSE p - 1)]_vars

\* next() has brought the pointer of a menu of three options to the last
C11_Witness ==
    /\ CtrlHandler = "MenuCtrl.next"
    /\ last.target.type \in MenuTypes
    /\ last.exc = "none"
    /\ Len(MenuKeys) = 3
    /\ app.widgets[last.target.id].selected = 2

\* C12: the options of a MenuCtrl are exactly the indices of
\* [minimum, maximum] the device accepted at construction, in ascending
\* order, and every value next() and prev() write is one of them, never
\* an index of a gap.
C12_MenuOptionsAccepted ==
    LET d == Descriptor("Menu")
        accepted == {i \in d.minimum .. d.maximum : i \in MenuIndices}
    IN  /\ {MenuKeys[k] : k \in 1 .. Len(MenuKeys)} = accepted
        /\ \A j, k \in 1 .. Len(MenuKeys) : j < k => MenuKeys[j] < MenuKeys[k]
        /\ CtrlHandler \in {"MenuCtrl.next", "MenuCtrl.prev"} =>
               /\ Len(last.writes) = 1
               /\ last.writes[1].id = last.target.id
               /\ last.writes[1].value \in accepted

\* prev() went from index 2 over the gap at 1 and wrote index 0
C12_Witness ==
    /\ CtrlHandler = "MenuCtrl.prev"
    /\ last.writes[1].value = 0
    /\ last.writes[1].accepted
    /\ app.widgets[last.target.id].selected = 0
    /\ 1 \notin MenuIndices

\* the last step committed the edit of a String control: Enter in edit mode
StringCommitted ==
    /\ last.op = "key"
    /\ last.key = "ENTER"
    /\ last.target.type = "String"
    /\ ~app.widgets[last.target.id].in_edit

\* C13: the value a String commit writes is the buffer followed by spaces
\* up to exactly minimum characters when the buffer is shorter than the
\* minimum, and the buffer unchanged when it is not.
C13_CommitPadsWithSpaces ==
    (StringCommitted /\ Len(last.writes) = 1) =>
        LET buffer == app.widgets[last.target.id].buffer
            minimum == Descriptor("String").minimum
        IN  last.writes[1].value =
                IF Len(buffer) < minimum
                THEN buffer \o Spaces(minimum - Len(buffer))
                ELSE buffer

C15_EscapeDiscards ==
    [][\A i \in DOMAIN app.widgets :
          (/\ app.enum[i].type = "String"
           /\ last'.op = "key"
           /\ last'.target.id = i) =>
              /\ (app.widgets[i].in_edit /\ last'.key = "ESC") =>
                     /\ ~app'.widgets[i].in_edit
                     /\ last'.writes = <<>>
                     /\ last'.exc = "none"
                     /\ app'.dev = app.dev
                     /\ app'.widgets[i].value = app.widgets[i].value
              /\ (/\ ~app.widgets[i].in_edit
                  /\ app'.widgets[i].in_edit
                  /\ typed >= 1) =>
                     app'.widgets[i].buffer = app.dev[i]]_vars

\* the cursor of a bitmask is on one of its 8 digits, and the buffer of one
\* in edit mode is 8 hex digits
BitmaskWellFormed(w) ==
    /\ w.selected \in 0 .. 7
    /\ w.in_edit => /\ Len(w.buffer) = 8
                    /\ \A k \in 1 .. 8 : IsHexDigit(w.buffer[k])

\* C16: in every state of the session the cursor of a Bitmask edit widget is
\* within 0..7 and, in edit mode, its buffer is exactly 8 hex digits; and a
\* hex digit typed with the cursor on digit 7 replaces that digit only and
\* leaves the cursor on 7
C16_BitmaskCursorAndBuffer ==
    /\ [](\A i \in DOMAIN app.widgets :
             app.enum[i].type = "Bitmask" => BitmaskWellFormed(app.widgets[i]))
    /\ [][\A i \in DOMAIN app.widgets :
             (/\ app.enum[i].type = "Bitmask"
              /\ app.widgets[i].in_edit
              /\ app.widgets[i].selected = 7
              /\ last'.op = "key"
              /\ last'.target.id = i
              /\ IsHexDigit(last'.key)) =>
                 app' = [app EXCEPT !.widgets[i].buffer[8] = last'.key]]_vars

\* the digit "f" was typed with the cursor on digit 7 (digit 6 is still the
\* "0" it was): it is digit 7 now and the cursor has stayed
C16_Witness ==
    /\ last.op = "key"
    /\ last.key = "f"
    /\ last.target.type = "Bitmask"
    /\ app.widgets[last.target.id].in_edit
    /\ app.widgets[last.target.id].selected = 7
    /\ app.widgets[last.target.id].buffer[7] = "0"
    /\ app.widgets[last.target.id].buffer[8] = "f"

\* the buffer of control c after inc (by = 1) or dec (by = -1)
NibbleAfter(a, c, by) == BitmaskDigitStep(Ctx(a), c, by).a.widgets[c.id].buffer

\* the buffer of control c after inc then dec
IncThenDec(a, c) ==
    BitmaskDigitStep(BitmaskDigitStep(Ctx(a), c, 1), c, -1).a.widgets[c.id].buffer

\* the values of the digits of a buffer
HexValues(buffer) == [k \in 1 .. Len(buffer) |-> HexValue(buffer[k])]

\* after is the buffer of w with by added modulo 16 to the digit under the
\* cursor, and nothing else changed
ModuloOnDigit(w, after, by) ==
    after = [w.buffer EXCEPT ![w.selected + 1] =
                                  HexDigits[((HexValue(@) + by) % 16) + 1]]

\* the Bitmask control in edit mode that the keys go to, if there is one
EditedBitmask ==
    {c \in {Target(app)} : c.type = "Bitmask" /\ app.widgets[c.id].in_edit}

\* C17 as stated: inc and dec add and subtract 1 modulo 16 on the digit
\* under the cursor and change no other digit, and an increment followed by
\* a decrement restores the buffer
C17_IncDecRestoresBuffer ==
    \A c \in EditedBitmask :
        /\ ModuloOnDigit(app.widgets[c.id], NibbleAfter(app, c, 1), 1)
        /\ ModuloOnDigit(app.widgets[c.id], NibbleAfter(app, c, -1), -1)
        /\ IncThenDec(app, c) = app.widgets[c.id].buffer

\* C17, amended: inc and dec add and subtract 1 modulo 16 on the digit under
\* the cursor and change no other digit ("f" to "0", "0" to "f"), in the
\* buffer and in nothing else of the app when the key is pressed; an
\* increment followed by a decrement restores the value of every digit, and
\* the buffer itself unless the digit under the cursor was typed in upper
\* case (it comes back in lower case)
C17_IncDecRestoresValue ==
    /\ [](\A c \in EditedBitmask :
             /\ ModuloOnDigit(app.widgets[c.id], NibbleAfter(app, c, 1), 1)
             /\ ModuloOnDigit(app.widgets[c.id], NibbleAfter(app, c, -1), -1)
             /\ HexValues(IncThenDec(app, c)) = HexValues(app.widgets[c.id].buffer)
             /\ (\A k \in 1 .. Len(UpperHexDigits) :
                     UpperHexDigits[k] #
                         app.widgets[c.id].buffer[app.widgets[c.id].selected + 1]) =>
                    IncThenDec(app, c) = app.widgets[c.id].buffer)
    /\ [][\A c \in EditedBitmask :
             /\ CtrlHandler' = "BitmaskCtrl.inc" =>
                    /\ ModuloOnDigit(app.widgets[c.id], app'.widgets[c.id].buffer, 1)
                    /\ app' = [app EXCEPT !.widgets[c.id].buffer =
                                              app'.widgets[c.id].buffer]
             /\ CtrlHandler' = "BitmaskCtrl.dec" =>
                    /\ ModuloOnDigit(app.widgets[c.id], app'.widgets[c.id].buffer, -1)
                    /\ app' = [app EXCEPT !.widgets[c.id].buffer =
                                              app'.widgets[c.id].buffer]]_vars

\* the digit under the cursor has just been incremented to "e": it was the
\* "D" typed before
C17_Witness ==
    /\ CtrlHandler = "BitmaskCtrl.inc"
    /\ \E c \in EditedBitmask :
          app.widgets[c.id].buffer[app.widgets[c.id].selected + 1] = "e"

\* C18: Enter in the edit mode of a Bitmask control writes the integer the 8
\* hex digits of the buffer denote, once, and leaves edit mode; Escape
\* leaves edit mode without a write and without an error, the value shown
\* being the committed one again; and the buffer an edit starts with denotes
\* the value that was shown, so that a commit without a change writes it
C18_CommitWritesBuffer ==
    [][\A c \in {Target(app)} :
          (c.type = "Bitmask" /\ last'.op = "key") =>
              /\ (app.widgets[c.id].in_edit /\ last'.key = "ENTER") =>
                     /\ ~app'.widgets[c.id].in_edit
                     /\ Len(last'.writes) = 1
                     /\ last'.writes[1].id = c.id
                     /\ HexValues(ToHex(last'.writes[1].value)) =
                            HexValues(app.widgets[c.id].buffer)
              /\ (app.widgets[c.id].in_edit /\ last'.key = "ESC") =>
                     /\ ~app'.widgets[c.id].in_edit
                     /\ last'.writes = <<>>
                     /\ last'.exc = "none"
                     /\ app'.dev = app.dev
                     /\ app'.widgets[c.id].value = Some(app.dev[c.id])
              /\ (~app.widgets[c.id].in_edit /\ app'.widgets[c.id].in_edit) =>
                     /\ app'.widgets[c.id].buffer = ToHex(Val(app.widgets[c.id].value))
                     /\ FromHex(app'.widgets[c.id].buffer) =
                            Val(app.widgets[c.id].value)]_vars

\* C19: in the edit mode of a Bitmask control a key that is no hex digit,
\* not Enter, not Escape and not bound for BitmaskCtrl changes neither the
\* buffer, the cursor and the edit flag, nor the selected control, the
\* active tab and the running state of the app; and the value a commit
\* writes is within 0 .. 2^32 - 1
C19_InvalidKeyIgnored ==
    [][\A c \in EditedBitmask :
          last'.op = "key" =>
              /\ (/\ ~IsHexDigit(last'.key)
                  /\ last'.key \notin {"ENTER", "ESC"}
                  /\ GetHandler("BitmaskCtrl", last'.key) = "None") =>
                     /\ app'.widgets[c.id] = app.widgets[c.id]
                     /\ app'.tabs = app.tabs
                     /\ app'.selected = app.selected
                     /\ app'.running = app.running
              /\ last'.key = "ENTER" =>
                     \A k \in 1 .. Len(last'.writes) :
                         /\ last'.writes[k].value.hi \in 0 .. 65535
                         /\ last'.writes[k].value.lo \in 0 .. 65535]_vars

\* the class of the object that answered at a level of the last keypress
LevelClass(level) ==
    IF level = "ctrl" THEN ClassOf(last.target.type) ELSE level

\* the answers of on_keypress methods that are not Widget.on_keypress
OwnOnKeypress == {"StringCtrl.on_keypress", "BitmaskCtrl.on_keypress"}

\* the entries of the registry for exactly (cls, key)
Registered(cls, key) ==
    {i \in 1 .. Len(KEYBINDS) : KEYBINDS[i].cls = cls /\ KEYBINDS[i].key = key}

\* the handlers that return True: inc and dec of a bitmask not in edit mode
ReturnsTrue(handler) ==
    /\ handler \in {"BitmaskCtrl.inc", "BitmaskCtrl.dec"}
    /\ ~app.widgets[last.target.id].in_edit

\* C20: at every level of a keypress, Widget.on_keypress ran the handler of
\* an entry registered for exactly (the class of the object, the key) and
\* returned its result when there is such an entry; when there is none it
\* ran no handler and returned True; and a keypress for which no level
\* found an entry changed nothing
C20_RegistryLookup ==
    /\ [](last.op = "key" =>
             \A k \in 1 .. Len(last.offered) :
                 LET o == last.offered[k]
                 IN  o.handler \notin OwnOnKeypress =>
                        IF Registered(LevelClass(o.level), last.key) = {}
                        THEN o.handler = "None" /\ o.cont
                        ELSE /\ \E i \in Registered(LevelClass(o.level), last.key) :
                                   o.handler = KEYBINDS[i].handler
                             /\ last.exc = "none" =>
                                    (o.cont <=> ReturnsTrue(o.handler)))
    /\ [][(/\ last'.op = "key"
            /\ \A k \in 1 .. Len(last'.offered) :
                   last'.offered[k].handler = "None") => app' = app]_vars

\* "q" went by the selected control, the VideoController and the TabbedView,
\* which have no entry for it, and ran App.end, the entry of (App, "q")
C20_Witness ==
    /\ last.op = "key"
    /\ last.key = "q"
    /\ Len(last.offered) = 4
    /\ \A k \in 1 .. 3 : last.offered[k].handler = "None" /\ last.offered[k].cont
    /\ last.offered[4].handler = "App.end"
    /\ ~app.running

\* the entries of kb_binds registered for exactly (cls, key)
ExactEntries(cls, key) ==
    {i \in 1 .. Len(kb_binds) : kb_binds[i].cls = cls /\ kb_binds[i].key = key}

\* C21: a lookup for a class resolves only through the entries registered
\* for that very class: it returns the handler of the first entry for
\* exactly (class, key), a handler of that class, and None when there is no
\* such entry, also for a derived class (Int64Ctrl) whose parent (IntCtrl)
\* has an entry for the key
C21_NoInheritedKeyBind ==
    kb_call.op = "get_handler" =>
        IF ExactEntries(kb_call.cls, kb_call.key) = {}
        THEN kb_call.handler = "None"
        ELSE /\ kb_call.handler = BindHandler(kb_call.cls)
             /\ \E i \in ExactEntries(kb_call.cls, kb_call.key) :
                   /\ kb_call.handler = kb_binds[i].handler
                   /\ \A j \in ExactEntries(kb_call.cls, kb_call.key) : i <= j

\* a key was looked up for Int64Ctrl, only its parent IntCtrl has an entry
\* for it, and the lookup returned None
C21_Witness ==
    /\ kb_call.op = "get_handler"
    /\ kb_call.cls = "Int64Ctrl"
    /\ kb_call.handler = "None"
    /\ ExactEntries(ParentClass(kb_call.cls), kb_call.key) # {}

\* the help texts registered for a display glyph
HelpTextsOf(display) ==
    {kb_binds[i].help_text : i \in {j \in 1 .. Len(kb_binds) :
                                       kb_binds[j].display = display}}

\* the first entry registering a help text for a display glyph
FirstRegistered(display, help_text) ==
    CHOOSE i \in 1 .. Len(kb_binds) :
        /\ kb_binds[i].display = display /\ kb_binds[i].help_text = help_text
        /\ \A j \in 1 .. (i - 1) :
               ~(kb_binds[j].display = display /\ kb_binds[j].help_text = help_text)

\* C22: the help overlay has one line per display glyph of the registry,
\* and the line of a glyph lists the help texts registered for that glyph
\* by any class, each once, none missing, in the order of registration
C22_HelpListsEachTextOnce ==
    kb_call.op = "draw_help" =>
        LET lines == kb_call.lines
        IN  /\ {lines[j].key : j \in 1 .. Len(lines)} =
                   {kb_binds[i].display : i \in 1 .. Len(kb_binds)}
            /\ \A j, k \in 1 .. Len(lines) : lines[j].key = lines[k].key => j = k
            /\ \A j \in 1 .. Len(lines) :
                   LET texts == lines[j].help_texts
                   IN  /\ {texts[t] : t \in 1 .. Len(texts)} = HelpTextsOf(lines[j].key)
                       /\ \A t, u \in 1 .. Len(texts) :
                              /\ texts[t] = texts[u] => t = u
                              /\ t < u => FirstRegistered(lines[j].key, texts[t])
                                             < FirstRegistered(lines[j].key, texts[u])

\* three entries of two classes share a glyph: two of them the same help
\* text, the third another one, and the line of the glyph lists the two
\* texts
C22_Witness ==
    /\ kb_call.op = "draw_help"
    /\ Len(kb_binds) = 3
    /\ kb_binds[1].cls # kb_binds[2].cls
    /\ kb_binds[1].help_text = kb_binds[2].help_text
    /\ kb_binds[3].help_text # kb_binds[1].help_text
    /\ Len(kb_call.lines) = 1
    /\ Len(kb_call.lines[1].help_texts) = 2

RECURSIVE NextTimes(_, _, _)
\* self.selected after k calls of next()
NextTimes(selected, n, k) ==
    IF k = 0 THEN selected ELSE NextTimes(TabbedViewNext(selected, n), n, k - 1)

\* C23: the selected index of a TabbedView is within [0, number of tabs);
\* next() from the last tab selects tab 0 and otherwise the following one,
\* prev() from tab 0 selects the last tab and otherwise the one before;
\* next() then prev() restores the index, and as many next() calls as
\* there are tabs come back to the tab they started from
C23_TabIndexCycles ==
    /\ [](/\ 0 <= tv.selected /\ tv.selected < tv.n
           /\ TabbedViewPrev(TabbedViewNext(tv.selected, tv.n), tv.n) = tv.selected
           /\ NextTimes(tv.selected, tv.n, tv.n) = tv.selected)
    /\ [][/\ tv_op' = "next" =>
                 tv' = [tv EXCEPT !.selected =
                                      IF tv.selected = tv.n - 1 THEN 0
                                      ELSE tv.selected + 1]
          /\ tv_op' = "prev" =>
                 tv' = [tv EXCEPT !.selected =
                                      IF tv.selected = 0 THEN tv.n - 1
                                      ELSE tv.selected - 1]]_vars

\* prev() has just selected the last of at least three tabs: it was called
\* on tab 0
C23_Witness ==
    /\ tv_op = "prev"
    /\ tv.n >= 3
    /\ tv.selected = tv.n - 1

\* C24: is_valid_device runs once in an iteration of the loop, after the
\* key handling of that iteration (a frame is drawn only after the check of
\* the iteration before, and the check follows getch and nothing else);
\* when it reports the device gone the terminal is released, the loop is
\* left, and no frame is drawn and no key dispatched after that
C24_DisconnectEndsLoop ==
    [][/\ pc # "exited"
       /\ pc' = "valid" => pc = "getch"
       /\ (pc = "getch" /\ pc' # "crashed") => pc' = "valid"
       /\ pc' = "draw" => (pc = "valid" /\ last'.op = "valid")
       /\ last'.op = "disconnected" =>
              /\ pc = "valid"
              /\ pc' = "exited"
              /\ app'.released
              /\ ~app'.running
              /\ app' = [app EXCEPT !.running = FALSE, !.released = TRUE]]_vars

\* the device went away while the session was running on a device with
\* controls: the loop is left with the terminal released
C24_Witness ==
    /\ last.op = "disconnected"
    /\ pc = "exited"
    /\ app.has_tabs
    /\ app.released
    /\ ~app.running

\* C25: however the session ends (quit key, SIGINT, device gone, an error
\* raised by a draw or by a key handler), the terminal has been restored
\* by then
C25_TerminalRestoredAtExit ==
    pc \in {"exited", "crashed"} => app.released

\* C26: the teardown a SIGINT asks for never happens inside a frame: a
\* signal that arrives during app.draw() leaves the terminal as it is until
\* the frame is done, no device access of that frame comes after App.end,
\* and no frame is started once the terminal is released
C26_NoTeardownMidFrame ==
    [][/\ last'.op = "sigint_draw" =>
              (app'.released = app.released /\ last'.after_end = <<>>)
       /\ last'.op = "draw" => ~app.released]_vars

\* the rows a frame takes: the title in row 0, then the lines of the help
\* from row 2 on, or the "no controls" Label of rows 2 and 3, or the tab
\* titles in row 2 and the first control in row 4
FrameRows(a) ==
    IF a.in_help THEN 2 + HelpLines
    ELSE IF ~a.has_tabs THEN 4
    ELSE 5

\* C27: when the terminal has fewer rows than the frame takes, the draw
\* raises no error out of the loop and the session has ended with the
\* terminal released
C27_TooSmallEndsCleanly ==
    (last.op \in {"draw", "sigint_draw"} /\ app.term_h < FrameRows(app)) =>
        (pc = "exited" /\ app.released /\ last.exc = "none")

\* the step dispatched its key to the handler named h
RanHandler(h) ==
    /\ last.op = "key"
    /\ \E k \in 1 .. Len(last.offered) : last.offered[k].handler = h

\* the selection as `last` records it is the one the session has now
SelectionKept ==
    /\ last.selection.tab = app.selected
    /\ last.selection.selected_ctrl = ActiveTab(app).selected_ctrl
    /\ last.selection.visible_start = ActiveTab(app).visible_start
    /\ last.selection.visible_stop = ActiveTab(app).visible_stop

\* C28: set_default_selected issues one device write, of the default of
\* the descriptor of the selected control, to that control;
\* set_default_all issues one such write for each control of the active
\* group, in order, and so none to a control of another tab; neither
\* changes the selected index, the visible window or the active tab
C28_SetDefaultWrites ==
    /\ RanHandler("VideoController.set_default_selected") =>
           /\ Len(last.writes) = 1
           /\ last.writes[1].id = last.target.id
           /\ last.writes[1].value = DefaultOf(last.target)
           /\ SelectionKept
    /\ RanHandler("VideoController.set_default_all") =>
           LET ctrls == ActiveTab(app).ctrls
           IN  /\ Len(last.writes) = Len(ctrls)
               /\ \A k \in 1 .. Len(ctrls) :
                      /\ last.writes[k].id = ctrls[k].id
                      /\ last.writes[k].value = DefaultOf(ctrls[k])
               /\ SelectionKept

\* C29: in every state of a VideoController, from its construction on and
\* after every next(), prev() and draw(), selected_ctrl is the index of a
\* control, and that control is not a class header
C29_SelectedIsNotHeader ==
    /\ 0 <= vc.selected_ctrl
    /\ vc.selected_ctrl < Len(vc.ctrls)
    /\ NotCtrlClassCtrl(vc.ctrls[vc.selected_ctrl + 1])

\* the class headers among the controls handed to the constructor
HeadersOf(ctrls) == {i \in 1 .. Len(ctrls) : IsCtrlClassCtrl(ctrls[i])}

\* next() or prev() came back after at most one call for each header of
\* the group and one more, on a control that is not a header
CameBack(r) ==
    /\ r.exc = "none"
    /\ r.calls >= 1
    /\ r.calls <= 1 + Cardinality(HeadersOf(vc_raw))
    /\ NotCtrlClassCtrl(r.vc.ctrls[r.vc.selected_ctrl + 1])

\* C30: on a group with at least one control that is not a header, next()
\* and prev() come back after finitely many recursive calls (no more than
\* there are headers in the group), wherever the selection is and however
\* the headers are arranged
C30_NextPrevTerminate ==
    (\E i \in 1 .. Len(vc_raw) : NotCtrlClassCtrl(vc_raw[i])) =>
        (CameBack(VCNext(vc)) /\ CameBack(VCPrev(vc)))

\* next() has run on a group of four with a header between its controls
\* and has wrapped from the last control to the first
C30_Witness ==
    /\ vc_op = "next"
    /\ vc_exc = "none"
    /\ Len(vc_raw) = MaxCtrls
    /\ IsCtrlClassCtrl(vc_raw[2])
    /\ NotCtrlClassCtrl(vc_raw[1])
    /\ NotCtrlClassCtrl(vc_raw[4])
    /\ vc.selected_ctrl = 0
    /\ vc.visible_start = 0

\* C31: the class headers of a group are in the sequence the controller
\* renders, each at its position in the enumeration; a draw() draws every
\* header whose position is within the visible window; no header is ever
\* the selected control
C31_HeadersRendered ==
    /\ \A p \in HeadersOf(vc_raw) :
           p <= Len(vc.ctrls) /\ vc.ctrls[p] = vc_raw[p]
    /\ (vc_op = "draw" /\ vc_exc = "none") =>
           \A p \in HeadersOf(vc_raw) :
               (vc.visible_start <= p - 1 /\ p - 1 < vc.visible_stop) =>
                   (p - 1) \in vc_drawn
    /\ (0 <= vc.selected_ctrl /\ vc.selected_ctrl < Len(vc.ctrls)) =>
           NotCtrlClassCtrl(vc.ctrls[vc.selected_ctrl + 1])

\* C32: a key the registry holds for IntCtrl or Int64Ctrl, pressed while
\* such a control is selected, runs an operation of the control: the
\* session goes on, and exactly one value is written to the device, to the
\* selected control and within [minimum, maximum]
C32_IntKeysWriteInRange ==
    (/\ last.op = "key"
     /\ last.target.type \in {"Integer", "Integer64"}
     /\ GetHandler(ClassOf(last.target.type), last.key) # "None") =>
        /\ last.exc = "none"
        /\ pc # "crashed"
        /\ Len(last.writes) = 1
        /\ last.writes[1].id = last.target.id
        /\ Descriptor(last.target.type).minimum <= last.writes[1].value
        /\ last.writes[1].value <= Descriptor(last.target.type).maximum

\* C33: in every render pass of a height that leaves room for a control
\* (h // 2 >= 1), whatever next(), prev() and renders of other heights came
\* before, the selected control is one of the controls drawn
C33_SelectedIsDrawn ==
    (vc_op = "draw" /\ vc_exc = "none" /\ vc_h \div 2 >= 1) =>
        vc.selected_ctrl \in vc_drawn

\* the group handed to the constructor has a control that is not a header
NonEmptyGroup == \E i \in 1 .. Len(vc_raw) : NotCtrlClassCtrl(vc_raw[i])

\* C34: on a non-empty group the start of the visible window is never
\* negative; next() and prev() leave the size stop - start of the window
\* as it was; a render keeps the start and sets the size to h // 2
C34_WindowSize ==
    /\ [](NonEmptyGroup => vc.visible_start >= 0)
    /\ [][NonEmptyGroup =>
              /\ vc_op' \in {"next", "prev"} =>
                     vc'.visible_stop - vc'.visible_start =
                         vc.visible_stop - vc.visible_start
              /\ vc_op' = "draw" =>
                     /\ vc_exc' = "none"
                     /\ vc'.visible_start = vc.visible_start
                     /\ vc'.visible_stop - vc'.visible_start = vc_h' \div 2]_vars

\* next() has wrapped from the last of three controls to the first, the
\* window of one control having been scrolled to the last
C34_Witness ==
    /\ vc_op = "next"
    /\ vc_h = 2
    /\ Len(vc.ctrls) = 3
    /\ vc.selected_ctrl = 0
    /\ vc.visible_start = 0
    /\ vc.visible_stop = 1

\* the String control that is selected is in edit mode
EditingString(a) ==
    /\ Target(a).type = "String"
    /\ a.widgets[Target(a).id].in_edit

\* C35: a key pressed while the selected String control is in edit mode is
\* consumed by that control: it is offered to no other level, and the
\* selected control and the window of every tab, the active tab, the help
\* and statusline toggles and the running state stay as they were
C35_EditConsumesKeys ==
    [][(EditingString(app) /\ last'.op = "key") =>
           /\ Len(last'.offered) = 1
           /\ last'.offered[1].level = "ctrl"
           /\ ~last'.offered[1].cont
           /\ app'.tabs = app.tabs
           /\ app'.selected = app.selected
           /\ app'.in_help = app.in_help
           /\ app'.show_statusline = app.show_statusline
           /\ app'.running = app.running
           /\ app'.released = app.released]_vars

\* 'q' was typed into the text of the String control of a device with two
\* tabs: the edit is open, the text ends in q, the session runs
C35_Witness ==
    /\ last.op = "key"
    /\ last.key = "q"
    /\ Len(app.tabs) = 2
    /\ app.widgets[1].in_edit
    /\ app.widgets[1].buffer = <<"a", "b", "q">>
    /\ app.running

\* the keys of C36 and the step each makes
UpDownKeys == {"k", "j"}

UpDownStep(key) == IF key = "k" THEN 1 ELSE -1

\* the arrow keys are registered with the handlers of k and j, for the
\* Bitmask control and for the group
ArrowsAreUpDown ==
    \A cls \in {"BitmaskCtrl", "VideoController", "TabbedView", "App"} :
        /\ GetHandler(cls, "KEY_UP") = GetHandler(cls, "k")
        /\ GetHandler(cls, "KEY_DOWN") = GetHandler(cls, "j")

\* C36: on a selected Bitmask control in edit mode k (up) and j (down) add
\* and subtract 1 modulo 16 on the digit under the cursor, the key goes no
\* further and nothing else of the session changes; out of edit mode they
\* select the previous and the next control of the group, the widget, its
\* buffer and the device staying as they were and no write being issued;
\* the arrow keys are bound as k and j are
C36_BitmaskUpDown ==
    /\ [](ArrowsAreUpDown)
    /\ [][(last'.op = "key" /\ last'.key \in UpDownKeys
              /\ Target(app).type = "Bitmask") =>
             LET id == Target(app).id
                 w == app.widgets[id]
                 n == Len(ActiveTab(app).ctrls)
                 sc == ActiveTab(app).selected_ctrl
             IN  /\ last'.exc = "none"
                 /\ last'.writes = <<>>
                 /\ app'.dev = app.dev
                 /\ app'.selected = app.selected
                 /\ IF w.in_edit
                    THEN /\ Len(last'.offered) = 1
                         /\ ModuloOnDigit(w, app'.widgets[id].buffer,
                                          UpDownStep(last'.key))
                         /\ app' = [app EXCEPT !.widgets[id].buffer =
                                                   app'.widgets[id].buffer]
                    ELSE /\ app'.widgets = app.widgets
                         /\ ActiveTab(app').selected_ctrl =
                                (sc - UpDownStep(last'.key)) % n
                         /\ \A t \in 1 .. Len(app.tabs) :
                                t # app.selected + 1 => app'.tabs[t] = app.tabs[t]]_vars

\* j on a Bitmask control out of edit mode has selected the control after
\* it, the buffer of the Bitmask control being what its edit left
C36_Witness ==
    /\ last.op = "key"
    /\ last.key = "j"
    /\ last.target.type = "Bitmask"
    /\ ~app.widgets[last.target.id].in_edit
    /\ last.selection.selected_ctrl = 0
    /\ ActiveTab(app).selected_ctrl = 1
    /\ RanHandler("BitmaskCtrl.dec")
    /\ RanHandler("VideoController.next")

\* the keys that toggle the help and quit
HelpKeys == {"?", "q"}

\* C37: while the help is displayed a key other than the help toggle and
\* quit changes no device value, no selected control and not the active tab
C37_HelpBlocksKeys ==
    [][(app.in_help /\ last'.op = "key" /\ last'.key \notin HelpKeys) =>
           /\ app'.dev = app.dev
           /\ last'.writes = <<>>
           /\ app'.selected = app.selected
           /\ \A t \in 1 .. Len(app.tabs) :
                  app'.tabs[t].selected_ctrl = app.tabs[t].selected_ctrl]_vars

\* TabbedView.next or TabbedView.prev has run on the key pressed
TabSwitched == RanHandler("TabbedView.next") \/ RanHandler("TabbedView.prev")

\* C38: a key that runs TabbedView.next or TabbedView.prev changes the
\* index of the active tab, by one modulo the number of tabs, and nothing
\* else: the selected index and the visible window of every tab, every
\* widget with its edit mode, buffer and cursor, and the device stay as
\* they were; next() then prev(), and prev() then next(), come back to the
\* tab they left
C38_TabSwitchFrame ==
    /\ [](app.has_tabs =>
             /\ TabbedViewPrev(TabbedViewNext(app.selected, Len(app.tabs)),
                               Len(app.tabs)) = app.selected
             /\ TabbedViewNext(TabbedViewPrev(app.selected, Len(app.tabs)),
                               Len(app.tabs)) = app.selected)
    /\ [][TabSwitched' =>
             /\ last'.exc = "none"
             /\ last'.writes = <<>>
             /\ app'.selected =
                    IF RanHandler("TabbedView.next")'
                    THEN (app.selected + 1) % Len(app.tabs)
                    ELSE (app.selected - 1) % Len(app.tabs)
             /\ app' = [app EXCEPT !.selected = app'.selected]]_vars

\* Tab was pressed on the first of two tabs with its Bitmask control in
\* edit mode, the cursor moved and a digit changed: the second tab is
\* active and the edit is as it was
C38_Witness ==
    /\ RanHandler("TabbedView.next")
    /\ Len(app.tabs) = 2
    /\ last.selection.tab = 0
    /\ app.selected = 1
    /\ last.target.type = "Bitmask"
    /\ app.widgets[last.target.id].in_edit
    /\ app.widgets[last.target.id].selected = 1

\* value - minimum is a multiple of the step of the descriptor
StepAligned(ctrl, value) == (value - ctrl.minimum) % ctrl.step = 0

\* C39: a value inc writes is aligned to the step of the descriptor when
\* the value it read was, for every delta and every range
C39_IncKeepsAlignment ==
    (/\ ic_call.op = "inc"
     /\ ic_call.exc = "none"
     /\ ic_ctrl.step > 0
     /\ StepAligned(ic_ctrl, ic_call.before)) =>
        StepAligned(ic_ctrl, ic_call.written)

====
